---------------------------- MODULE Spec2Model ----------------------------
(***************************************************************************)
(* Model of the backtesting engine of GPW-Quant-System                     *)
(* (src/backtest/engine.py): BacktestEngine._prepare_df,                   *)
(* BacktestEngine.run_single_symbol and BacktestEngine.run_portfolio.      *)
(*                                                                         *)
(* Floating point numbers are modelled as exact rationals <<n, d>> in      *)
(* lowest terms with d > 0, extended with the three IEEE specials          *)
(* NaN = <<0, 0>>, +inf = <<1, 0>> and -inf = <<-1, 0>>.  Rounding error   *)
(* and signed zeros are not modelled.                                      *)
(***************************************************************************)
EXTENDS Integers, Sequences, FiniteSets, TLC

VARIABLES df, cfg, call, result, benchmark, output, regime_input, regime_output,
          strategy_input, strategy_output, trader_input, trader_output,
          hysteresis_input, hysteresis_output

strategy_vars == <<strategy_input, strategy_output>>

trader_vars == <<trader_input, trader_output>>

hysteresis_vars == <<hysteresis_input, hysteresis_output>>

vars ==
    <<df, cfg, call, result, benchmark, output, regime_input, regime_output,
      strategy_vars, trader_vars, hysteresis_vars>>

-----------------------------------------------------------------------------
(* Bounds *)

\* number of distinct calendar dates a panel may use
NDates == 3

\* days of the daily CSV in the short runs of the regime analysis
NRegimeDays == 4

\* bars of a price series given to a strategy
NBars == 4

\* rows of a symbol given to a hysteresis machine
NRows == 4

-----------------------------------------------------------------------------
(* IEEE-like arithmetic on exact rationals *)

Abs(i) == IF i < 0 THEN -i ELSE i

Sign(i) == IF i < 0 THEN -1 ELSE IF i > 0 THEN 1 ELSE 0

RECURSIVE GCD(_, _)
GCD(a, b) == IF b = 0 THEN a ELSE GCD(b, a % b)

\* the rational n/d (d # 0) in lowest terms with a positive denominator
Rat(n, d) ==
    LET g == GCD(Abs(n), Abs(d))
        s == IF d < 0 THEN -1 ELSE 1
    IN  <<(s * n) \div g, (s * d) \div g>>

NaN == <<0, 0>>
PInf == <<1, 0>>
NInf == <<-1, 0>>
Zero == <<0, 1>>
One == <<1, 1>>

IsNaN(x) == x = NaN
IsInf(x) == x[2] = 0 /\ x[1] # 0
IsFinite(x) == x[2] # 0

Neg(x) == <<-x[1], x[2]>>

FAdd(x, y) ==
    IF IsNaN(x) \/ IsNaN(y) THEN NaN
    ELSE IF IsInf(x) /\ IsInf(y) THEN (IF x = y THEN x ELSE NaN)
    ELSE IF IsInf(x) THEN x
    ELSE IF IsInf(y) THEN y
    ELSE LET g == GCD(x[2], y[2])
         IN  Rat(x[1] * (y[2] \div g) + y[1] * (x[2] \div g), (x[2] \div g) * y[2])

FSub(x, y) == FAdd(x, Neg(y))

FMul(x, y) ==
    IF IsNaN(x) \/ IsNaN(y) THEN NaN
    ELSE IF IsInf(x) \/ IsInf(y)
         THEN <<Sign(x[1]) * Sign(y[1]), 0>>
    ELSE LET g1 == GCD(Abs(x[1]), y[2])
             g2 == GCD(Abs(y[1]), x[2])
         IN  Rat((x[1] \div g1) * (y[1] \div g2), (x[2] \div g2) * (y[2] \div g1))

FDiv(x, y) ==
    IF IsNaN(x) \/ IsNaN(y) THEN NaN
    ELSE IF IsInf(y) THEN (IF IsInf(x) THEN NaN ELSE Zero)
    ELSE IF y[1] = 0 THEN <<Sign(x[1]), 0>>
    ELSE IF IsInf(x) THEN <<Sign(x[1]) * Sign(y[1]), 0>>
    ELSE LET g1 == GCD(Abs(x[1]), Abs(y[1]))
             g2 == GCD(y[2], x[2])
         IN  Rat((x[1] \div g1) * (y[2] \div g2), (x[2] \div g2) * (y[1] \div g1))

FAbs(x) == <<Abs(x[1]), x[2]>>

\* comparisons are false as soon as one side is NaN
FLt(x, y) ==
    /\ ~IsNaN(x)
    /\ ~IsNaN(y)
    /\ x # y
    /\ IF IsInf(x) THEN x = NInf
       ELSE IF IsInf(y) THEN y = PInf
       ELSE LET g == GCD(x[2], y[2])
            IN  x[1] * (y[2] \div g) < y[1] * (x[2] \div g)

FLe(x, y) == ~IsNaN(x) /\ ~IsNaN(y) /\ (x = y \/ FLt(x, y))

FGt(x, y) == FLt(y, x)

FMax(x, y) == IF IsNaN(x) \/ IsNaN(y) THEN NaN ELSE IF FLt(x, y) THEN y ELSE x

FMin(x, y) == IF IsNaN(x) \/ IsNaN(y) THEN NaN ELSE IF FLt(y, x) THEN y ELSE x

Int2F(i) == <<i, 1>>


-----------------------------------------------------------------------------
(* Panels (pandas DataFrames) *)

Symbols == {"aaa", "AAA", "bbb"}

\* str.lower on the symbol strings of the model
Lower(s) == CASE s = "AAA" -> "aaa" [] s = "BBB" -> "bbb" [] OTHER -> s

\* lexicographic order of the lower-cased symbols
SymRank(s) == CASE s = "aaa" -> 1 [] s = "bbb" -> 2 [] OTHER -> 3

Dates == 1 .. NDates

Required == {"date", "symbol", "close", "ret_1d", "signal"}

Max(S) == CHOOSE x \in S : \A y \in S : y <= x

Range(f) == {f[i] : i \in DOMAIN f}

\* one column of a frame as a sequence
Column(rows, f) == [i \in 1 .. Len(rows) |-> rows[i][f]]

\* exceptions raised by the engine
ValueError(msg, detail) == [status |-> "raise", type |-> "ValueError", msg |-> msg, detail |-> detail]
KeyError(key) == [status |-> "raise", type |-> "KeyError", msg |-> "KeyError", detail |-> {key}]
TypeError(msg) == [status |-> "raise", type |-> "TypeError", msg |-> msg, detail |-> {}]

\* Series.clip(lo, hi): NaN stays NaN
Clip(x, lo, hi) ==
    IF IsNaN(x) THEN NaN
    ELSE IF FLt(x, lo) THEN lo
    ELSE IF FGt(x, hi) THEN hi
    ELSE x

\* Series.fillna(0.0)
Fillna0(x) == IF IsNaN(x) THEN Zero ELSE x

\* alphabetical order of the regime labels and of the series names
RegimeRank(r) == CASE r = "BEAR" -> 1 [] r = "BULL" -> 2 [] OTHER -> 3

SeriesRank(x) == CASE x = "active" -> 1 [] x = "benchmark_bh" -> 2 [] OTHER -> 3

\* order of two rows under sort_values(order)
RowLe(a, b, order) ==
    IF order = "symbol_date"
    THEN \/ SymRank(a.symbol) < SymRank(b.symbol)
         \/ a.symbol = b.symbol /\ a.date <= b.date
    ELSE IF order = "date" THEN a.date <= b.date
    ELSE IF order = "regime_series"
    THEN \/ RegimeRank(a.regime) < RegimeRank(b.regime)
         \/ a.regime = b.regime /\ SeriesRank(a.series) <= SeriesRank(b.series)
    ELSE \/ a.date < b.date
         \/ a.date = b.date /\ SymRank(a.symbol) <= SymRank(b.symbol)

\* stable insertion of r into the sorted sequence s
InsertRow(s, r, order) ==
    LET before == {i \in 1 .. Len(s) : RowLe(s[i], r, order)}
        k == IF before = {} THEN 0 ELSE Max(before)
    IN  SubSeq(s, 1, k) \o <<r>> \o SubSeq(s, k + 1, Len(s))

RECURSIVE SortRows(_, _)
\* DataFrame.sort_values(...).reset_index(drop=True)
SortRows(rows, order) ==
    IF rows = <<>> THEN <<>>
    ELSE InsertRow(SortRows(SubSeq(rows, 1, Len(rows) - 1), order), rows[Len(rows)], order)

\* index of the previous row of the same symbol (0 if none): groupby("symbol").shift(1)
PrevIdx(rows, i) ==
    LET S == {j \in 1 .. (i - 1) : rows[j].symbol = rows[i].symbol}
    IN  IF S = {} THEN 0 ELSE Max(S)

\* a lag that forgets the shift: the weight of the row itself
WeightLag1_NoShift(rows, i) == Fillna0(rows[i].weight)

\* groupby("symbol")["weight"].shift(1).fillna(0.0)
WeightLag1(rows, i) ==
    LET p == PrevIdx(rows, i)
    IN  IF p = 0 THEN Zero ELSE Fillna0(rows[p].weight)

\* df["symbol"].str.lower()
Lowered(rows) == [i \in 1 .. Len(rows) |-> [rows[i] EXCEPT !.symbol = Lower(@)]]

\* weight = signal.clip(-1.0, 1.0)
Weighted(sorted) ==
    [i \in 1 .. Len(sorted) |->
        [symbol |-> sorted[i].symbol, date |-> sorted[i].date,
         close |-> sorted[i].close, ret_1d |-> sorted[i].ret_1d,
         signal |-> sorted[i].signal,
         weight |-> Clip(sorted[i].signal, Neg(One), One)]]

\* the weight_lag1 column
Lagged(weighted) ==
    [i \in 1 .. Len(weighted) |->
        [symbol |-> weighted[i].symbol, date |-> weighted[i].date,
         close |-> weighted[i].close, ret_1d |-> weighted[i].ret_1d,
         signal |-> weighted[i].signal, weight |-> weighted[i].weight,
         weight_lag1 |-> WeightLag1(weighted, i)]]

\* BacktestEngine._prepare_df
PrepareDf(columns, rows) ==
    IF Required \ columns # {}
    THEN ValueError("missing required columns", Required \ columns)
    ELSE [status |-> "ok",
          rows |-> Lagged(Weighted(SortRows(Lowered(rows), "symbol_date")))]

-----------------------------------------------------------------------------
(* Metrics shared by both modes *)

\* a cleaning that drops the missing values only
DropNonFinite_NaNOnly(s) == SelectSeq(s, LAMBDA x : ~IsNaN(x))

\* Series.replace([inf, -inf], nan).dropna() on a sequence of numbers
DropNonFinite(s) == SelectSeq(s, IsFinite)

RECURSIVE ProdUpTo(_, _)
\* product of the first i entries, NaN entries counted as 1 (cumprod, skipna)
ProdUpTo(s, i) ==
    IF i = 0 THEN One
    ELSE FMul(ProdUpTo(s, i - 1), IF IsNaN(s[i]) THEN One ELSE s[i])

\* Series.cumprod(): NaN at the NaN entries, accumulation continues after them
CumProd(s) == [i \in 1 .. Len(s) |-> IF IsNaN(s[i]) THEN NaN ELSE ProdUpTo(s, i)]

RECURSIVE SumUpTo(_, _)
SumUpTo(s, i) == IF i = 0 THEN Zero ELSE FAdd(SumUpTo(s, i - 1), s[i])

\* np.prod over an array
Prod(s) == ProdUpTo(s, Len(s))

\* population variance (ddof = 0) of a non-empty array of finite numbers
Variance(s) ==
    LET n == Int2F(Len(s))
        mean == FDiv(SumUpTo(s, Len(s)), n)
        sq == [i \in 1 .. Len(s) |-> FMul(FSub(s[i], mean), FSub(s[i], mean))]
    IN  FDiv(SumUpTo(sq, Len(s)), n)

RECURSIVE MaxUpTo(_, _)
\* np.maximum.accumulate
MaxUpTo(s, i) == IF i = 1 THEN s[1] ELSE FMax(MaxUpTo(s, i - 1), s[i])

RECURSIVE MinUpTo(_, _)
\* ndarray.min(): NaN propagates
MinUpTo(s, i) == IF i = 1 THEN s[1] ELSE FMin(MinUpTo(s, i - 1), s[i])

\* dd = curve / running_max - 1 over the cleaned equity array
Drawdowns(equity_arr, initial_capital) ==
    LET curve == [i \in 1 .. Len(equity_arr) |-> FDiv(equity_arr[i], initial_capital)]
    IN  [i \in 1 .. Len(curve) |-> FSub(FDiv(curve[i], MaxUpTo(curve, i)), One)]

\* growth ** (1.0 / years): "nan" for a NaN base, "complex" for a negative
\* base under a non-integral exponent (Python returns a complex number), else
\* "real".  1.0 / (n / tdy) is integral exactly when n divides tdy.
PowKind(growth, tdy, n) ==
    IF IsNaN(growth) THEN "nan"
    ELSE IF FLt(growth, Zero) /\ IsFinite(growth) /\ tdy % n # 0 THEN "complex"
    ELSE "real"

\* the metric block: n, ann_ret, ann_vol, sharpe, max_dd and the summary dict.
\* ann_vol is kept as its square (variance * trading_days_per_year).
Metrics(symbol, net_ret, equity, growth, total_return, final_equity, c) ==
    LET net_ret_arr == DropNonFinite(net_ret)
        n == Len(net_ret_arr)
        ann_ret == PowKind(growth, c.trading_days_per_year, n)
        ann_vol_sq == FMul(Variance(net_ret_arr), Int2F(c.trading_days_per_year))
        sharpe == IF FGt(ann_vol_sq, Zero) /\ ann_ret # "nan" THEN ann_ret ELSE "nan"
        equity_arr == DropNonFinite(equity)
        dd == Drawdowns(equity_arr, c.initial_capital)
    IN  IF net_ret_arr = <<>>
        THEN ValueError("no valid returns to compute metrics", {})
        ELSE IF equity_arr = <<>>
        THEN ValueError("zero-size array to reduction operation minimum", {})
        ELSE IF ann_ret = "complex"
        THEN TypeError("float() argument must be a real number, not complex")
        ELSE [status |-> "ok",
              summary |-> [symbol |-> symbol,
                           n_days |-> n,
                           initial_capital |-> c.initial_capital,
                           final_equity |-> final_equity,
                           total_return |-> total_return,
                           ann_return |-> ann_ret,
                           ann_vol_sq |-> ann_vol_sq,
                           sharpe |-> sharpe,
                           max_drawdown |-> MinUpTo(dd, Len(dd))]]

\* (commission_bps + slippage_bps) / 10_000.0
CostPerTurnover(c) == FDiv(FAdd(c.commission_bps, c.slippage_bps), Int2F(10000))

\* a turnover that charges the level of the position, not its change
Turnover_Level(weight, weight_lag1) == FAbs(weight)

\* (weight - weight_lag1).abs()
Turnover(weight, weight_lag1) == FAbs(FSub(weight, weight_lag1))

-----------------------------------------------------------------------------
(* BacktestEngine.run_single_symbol *)

\* the rows g of run_single_symbol after the return columns are added
SingleRows(rows, c) ==
    LET cost_per_turnover == CostPerTurnover(c)
        base == [i \in 1 .. Len(rows) |->
                    LET gross_ret == FMul(rows[i].ret_1d, rows[i].weight_lag1)
                        turnover == Turnover(rows[i].weight, rows[i].weight_lag1)
                        cost_ret == FMul(turnover, cost_per_turnover)
                    IN  [date |-> rows[i].date, symbol |-> rows[i].symbol,
                         ret_1d |-> rows[i].ret_1d, gross_ret |-> gross_ret,
                         net_ret |-> FSub(gross_ret, cost_ret),
                         weight |-> rows[i].weight, weight_lag1 |-> rows[i].weight_lag1,
                         turnover |-> turnover, cost_ret |-> cost_ret]]
    IN  base

\* an equity column that forgets the capital: (1 + net_ret).cumprod() alone
EquityCurve_NoCapital(dates, net_ret, c) ==
    LET cp == CumProd([i \in 1 .. Len(net_ret) |-> FAdd(One, net_ret[i])])
    IN  [i \in 1 .. Len(net_ret) |->
            [date |-> dates[i], equity |-> cp[i], cum_ret |-> FSub(cp[i], One)]]

\* equity = initial_capital * (1 + net_ret).cumprod(); cum_ret = equity / initial_capital - 1
EquityCurve(dates, net_ret, c) ==
    LET cp == CumProd([i \in 1 .. Len(net_ret) |-> FAdd(One, net_ret[i])])
    IN  [i \in 1 .. Len(net_ret) |->
            LET equity == FMul(c.initial_capital, cp[i])
            IN  [date |-> dates[i], equity |-> equity,
                 cum_ret |-> FSub(FDiv(equity, c.initial_capital), One)]]

\* final_equity, growth, total_return, then the metric block
SingleMetrics(symbol, net_ret, equity, final_equity, c) ==
    LET growth == FDiv(final_equity, c.initial_capital)
    IN  Metrics(symbol, net_ret, equity, growth, FSub(growth, One), final_equity, c)

SingleResult(g, equity_curve, m) ==
    IF m.status = "raise" THEN m
    ELSE [status |-> "ok", equity_curve |-> equity_curve, daily |-> g,
          summary |-> m.summary]

SingleBacktest(symbol, g, equity_curve, c) ==
    SingleResult(g, equity_curve,
                 SingleMetrics(symbol, Column(g, "net_ret"), Column(equity_curve, "equity"),
                               equity_curve[Len(equity_curve)].equity, c))

SingleCurve(symbol, g, c) ==
    SingleBacktest(symbol, g,
                   EquityCurve(Column(g, "date"), Column(g, "net_ret"), c), c)

\* a run that goes on with an empty frame
SinglePrepared_NoEmptyCheck(symbol, panel, c) ==
    IF panel.status = "raise" THEN panel
    ELSE SingleCurve(symbol, SingleRows(panel.rows, c), c)

SinglePrepared(symbol, panel, c) ==
    IF panel.status = "raise" THEN panel
    ELSE IF panel.rows = <<>> THEN ValueError("no data for symbol", {symbol})
    ELSE SingleCurve(symbol, SingleRows(panel.rows, c), c)

\* df[df["symbol"] == symbol] on the frame as given, then _prepare_df
SingleFilter(d, symbol) ==
    PrepareDf(d.columns, SelectSeq(d.rows, LAMBDA r : r.symbol = symbol))

RunSingleSymbol(d, symbol_arg, c) ==
    IF "symbol" \notin d.columns THEN KeyError("symbol")
    ELSE SinglePrepared(Lower(symbol_arg), SingleFilter(d, Lower(symbol_arg)), c)

-----------------------------------------------------------------------------
(* BacktestEngine.run_portfolio *)

\* budgets that give each side the whole leverage when both are populated
GrossBudgets_NoSplit(n_long, n_short, c) ==
    <<IF n_long > 0 THEN c.max_gross_leverage ELSE Zero,
      IF n_short > 0 THEN c.max_gross_leverage ELSE Zero>>

\* <<long_gross, short_gross>> of _normalize_weights for a date with n_long
\* long and n_short short candidates
GrossBudgets(n_long, n_short, c) ==
    IF n_long > 0 /\ n_short > 0
    THEN <<FMul(<<1, 2>>, c.max_gross_leverage), FMul(<<1, 2>>, c.max_gross_leverage)>>
    ELSE IF n_long > 0 /\ n_short = 0 THEN <<c.max_gross_leverage, Zero>>
    ELSE IF n_short > 0 /\ n_long = 0 THEN <<Zero, c.max_gross_leverage>>
    ELSE <<Zero, Zero>>

\* _normalize_weights applied to the group of rows of one date: the
\* port_weight of row i of the panel
PortWeight(panel, i, c) ==
    LET group == {j \in 1 .. Len(panel) : panel[j].date = panel[i].date}
        longs == {j \in group : FGt(panel[j].weight, Zero)}
        shorts == {j \in group : FLt(panel[j].weight, Zero)}
        n_long == Cardinality(longs)
        n_short == Cardinality(shorts)
        budgets == GrossBudgets(n_long, n_short, c)
    IN  IF i \in longs THEN FDiv(budgets[1], Int2F(n_long))
        ELSE IF i \in shorts THEN Neg(FDiv(budgets[2], Int2F(n_short)))
        ELSE Zero

\* groupby("symbol")["port_weight"].shift(1).fillna(0.0)
PortWeightLag1(rows, i) ==
    LET p == PrevIdx(rows, i)
    IN  IF p = 0 THEN Zero ELSE Fillna0(rows[p].port_weight)

\* panel.groupby("date").apply(_normalize_weights): the port_weight column
PortWeights(panel, c) ==
    [i \in 1 .. Len(panel) |->
        [symbol |-> panel[i].symbol, date |-> panel[i].date,
         ret_1d |-> panel[i].ret_1d, weight |-> panel[i].weight,
         port_weight |-> PortWeight(panel, i, c)]]

\* port_weight_lag1 and the per-symbol gross return, turnover and cost
PortfolioReturns(pw, cost_per_turnover) ==
    [i \in 1 .. Len(pw) |->
        LET port_weight_lag1 == PortWeightLag1(pw, i)
            symbol_turnover == Turnover(pw[i].port_weight, port_weight_lag1)
        IN  [symbol |-> pw[i].symbol, date |-> pw[i].date, ret_1d |-> pw[i].ret_1d,
             weight |-> pw[i].weight, port_weight |-> pw[i].port_weight,
             port_weight_lag1 |-> port_weight_lag1,
             symbol_gross_ret |-> FMul(pw[i].ret_1d, port_weight_lag1),
             symbol_turnover |-> symbol_turnover,
             symbol_cost_ret |-> FMul(symbol_turnover, cost_per_turnover)]]

\* the per-(symbol, date) panel of run_portfolio with its derived columns
PortfolioPanel(rows, c) ==
    PortfolioReturns(PortWeights(SortRows(rows, "date_symbol"), c), CostPerTurnover(c))

RECURSIVE NanSum(_)
\* groupby(...).agg("sum"): NaN entries are skipped, an all-NaN group sums to 0
NanSum(s) ==
    IF s = <<>> THEN Zero
    ELSE FAdd(NanSum(Tail(s)), IF IsNaN(Head(s)) THEN Zero ELSE Head(s))

RECURSIVE SortedDates(_)
\* the distinct dates of the panel in ascending order (the group keys)
SortedDates(S) ==
    IF S = {} THEN <<>>
    ELSE LET m == CHOOSE x \in S : \A y \in S : x <= y
         IN  <<m>> \o SortedDates(S \ {m})

\* panel.groupby("date", as_index=False).agg(...) plus net_ret
Grouped(panel) ==
    LET keys == SortedDates({panel[i].date : i \in 1 .. Len(panel)})
    IN  [k \in 1 .. Len(keys) |->
            LET grp == SelectSeq(panel, LAMBDA r : r.date = keys[k])
                col(f) == [i \in 1 .. Len(grp) |-> grp[i][f]]
                lag == col("port_weight_lag1")
                gross_ret == NanSum(col("symbol_gross_ret"))
                cost_ret == NanSum(col("symbol_cost_ret"))
            IN  [date |-> keys[k],
                 gross_ret |-> gross_ret,
                 cost_ret |-> cost_ret,
                 gross_leverage |-> NanSum([i \in 1 .. Len(lag) |-> FAbs(lag[i])]),
                 n_long |-> Cardinality({i \in 1 .. Len(lag) : FGt(lag[i], Zero)}),
                 n_short |-> Cardinality({i \in 1 .. Len(lag) : FLt(lag[i], Zero)}),
                 portfolio_turnover |-> NanSum(col("symbol_turnover")),
                 net_ret |-> FSub(gross_ret, cost_ret)]]

\* the daily table: the grouped columns joined with equity and cum_ret
PortfolioDaily(grouped, equity_curve) ==
    [i \in 1 .. Len(grouped) |->
        [date |-> grouped[i].date, gross_ret |-> grouped[i].gross_ret,
         cost_ret |-> grouped[i].cost_ret,
         gross_leverage |-> grouped[i].gross_leverage,
         n_long |-> grouped[i].n_long, n_short |-> grouped[i].n_short,
         portfolio_turnover |-> grouped[i].portfolio_turnover,
         net_ret |-> grouped[i].net_ret,
         equity |-> equity_curve[i].equity,
         cum_ret |-> equity_curve[i].cum_ret]]

\* growth = np.prod(1.0 + net_ret_arr) over the valid returns
PortfolioGrowth(net_ret_arr) ==
    Prod([i \in 1 .. Len(net_ret_arr) |-> FAdd(One, net_ret_arr[i])])

\* total_ret = growth - 1.0, final_equity = equity.iloc[-1], then the metric block
PortfolioMetrics(net_ret, equity, growth, c) ==
    Metrics("PORTFOLIO", net_ret, equity, growth, FSub(growth, One),
            equity[Len(equity)], c)

PortfolioResult(grouped, equity_curve, m) ==
    IF m.status = "raise" THEN m
    ELSE [status |-> "ok", equity_curve |-> equity_curve,
          daily |-> PortfolioDaily(grouped, equity_curve), summary |-> m.summary]

PortfolioBacktest(grouped, equity_curve, net_ret, c) ==
    PortfolioResult(grouped, equity_curve,
                    PortfolioMetrics(net_ret, Column(equity_curve, "equity"),
                                     PortfolioGrowth(DropNonFinite(net_ret)), c))

PortfolioCurve(grouped, c) ==
    PortfolioBacktest(grouped,
                      EquityCurve(Column(grouped, "date"), Column(grouped, "net_ret"), c),
                      Column(grouped, "net_ret"), c)

PortfolioPrepared(prep, c) ==
    IF prep.status = "raise" THEN prep
    ELSE IF prep.rows = <<>>
    THEN ValueError("no data provided for portfolio backtest", {})
    ELSE PortfolioCurve(Grouped(PortfolioPanel(prep.rows, c)), c)

RunPortfolio(d, c) == PortfolioPrepared(PrepareDf(d.columns, d.rows), c)

-----------------------------------------------------------------------------
(* The caller's frame after a call *)

\* a frame that shares the data of the frame it was made from: a write to it
\* reaches that frame
DfCopy_NoCopy(frame) == [columns |-> frame.columns, rows |-> frame.rows, own |-> FALSE]

\* out = df.copy(): a new frame with data of its own
DfCopy(frame) == [columns |-> frame.columns, rows |-> frame.rows, own |-> TRUE]

\* the frame given to _prepare_df, as its holder sees it afterwards: the check
\* of the columns raises before anything is written; the date and symbol
\* columns are then assigned on out, and out is rebound to the sorted frame, a
\* new object that takes the weight columns
PrepareDfArgument(frame) ==
    IF Required \ frame.columns # {} \/ DfCopy(frame).own THEN frame
    ELSE [columns |-> frame.columns, rows |-> Lowered(frame.rows)]

\* run_portfolio hands the caller's df itself to _prepare_df and works on the
\* frame that returns
DfAfterPortfolio(d) == PrepareDfArgument(d)

\* run_single_symbol hands df[df["symbol"] == symbol], a new frame, to
\* _prepare_df: no write reaches d
DfAfterSingle(d, symbol_arg) == d

-----------------------------------------------------------------------------
(* The benchmark comparator of run_single_backtest *)

SystemExit(msg) == [status |-> "raise", type |-> "SystemExit", msg |-> msg, detail |-> {}]

\* bm_df["close"].pct_change().fillna(0.0)
BmRet(bm, i) ==
    IF i = 1 THEN Zero
    ELSE Fillna0(FSub(FDiv(bm[i].close, bm[i - 1].close), One))

\* the benchmark frame, sorted by date (sort_values("date")), with its bm_ret column
BenchmarkReturns(rows) ==
    [i \in 1 .. Len(rows) |-> [date |-> rows[i].date, bm_ret |-> BmRet(rows, i)]]

RECURSIVE Flatten(_)
\* concatenation of a sequence of sequences
Flatten(ss) == IF ss = <<>> THEN <<>> ELSE Head(ss) \o Flatten(Tail(ss))

\* the rows of the right frame that have the date of a left row, in their order
Matches(date, right) == SelectSeq(right, LAMBDA r : r.date = date)

\* pd.merge(daily[["date", "net_ret"]], bm_df[["date", "bm_ret"]], on="date",
\* how="inner") with active_ret = net_ret - bm_ret
InnerMerge(daily, bm) ==
    Flatten([i \in 1 .. Len(daily) |->
                [j \in 1 .. Len(Matches(daily[i].date, bm)) |->
                    [date |-> daily[i].date, net_ret |-> daily[i].net_ret,
                     bm_ret |-> Matches(daily[i].date, bm)[j].bm_ret,
                     active_ret |-> FSub(daily[i].net_ret,
                                         Matches(daily[i].date, bm)[j].bm_ret)]]])

\* the left-joined rows of one daily row: its matches, or one row of missing values
LeftRows(row, matches) ==
    IF matches = <<>>
    THEN <<row @@ [bm_ret |-> NaN, active_ret |-> NaN]>>
    ELSE [j \in 1 .. Len(matches) |->
             row @@ [bm_ret |-> matches[j].bm_ret, active_ret |-> matches[j].active_ret]]

\* pd.merge(daily, merged[["date", "bm_ret", "active_ret"]], on="date", how="left")
LeftMerge(daily, merged) ==
    Flatten([i \in 1 .. Len(daily) |-> LeftRows(daily[i], Matches(daily[i].date, merged))])

\* _ann_stats on the cleaned array arr of a series
AnnStatsOf(arr, growth, tdy) ==
    IF arr = <<>> THEN [ann_ret |-> "nan", ann_vol_sq |-> NaN, sharpe |-> "nan"]
    ELSE [ann_ret |-> PowKind(growth, tdy, Len(arr)),
          ann_vol_sq |-> FMul(Variance(arr), Int2F(tdy)),
          sharpe |-> IF FGt(FMul(Variance(arr), Int2F(tdy)), Zero)
                     THEN PowKind(growth, tdy, Len(arr)) ELSE "nan"]

AnnStats(r, tdy) ==
    AnnStatsOf(DropNonFinite(r), PortfolioGrowth(DropNonFinite(r)), tdy)

\* result.summary.update(...), the left join onto daily, and the output
ComparatorOutput(res, merged, bench, active) ==
    IF "complex" \in {bench.ann_ret, bench.sharpe, active.ann_ret, active.sharpe}
    THEN TypeError("float() argument must be a real number, not complex")
    ELSE [status |-> "written",
          summary |-> res.summary @@
                      [bench_ann_return |-> bench.ann_ret,
                       bench_ann_vol_sq |-> bench.ann_vol_sq,
                       bench_sharpe |-> bench.sharpe,
                       active_ann_return |-> active.ann_ret,
                       active_ann_vol_sq |-> active.ann_vol_sq,
                       active_sharpe |-> active.sharpe],
          equity_curve |-> res.equity_curve,
          daily |-> LeftMerge(res.daily, merged)]

\* a comparator that goes on with an empty join
ComparatorMerged_NoCheck(res, merged, c) ==
    ComparatorOutput(res, merged,
                     AnnStats(Column(merged, "bm_ret"), c.trading_days_per_year),
                     AnnStats(Column(merged, "active_ret"), c.trading_days_per_year))

ComparatorMerged(res, merged, c) ==
    IF merged = <<>>
    THEN SystemExit("No overlapping dates between backtest and benchmark.")
    ELSE ComparatorOutput(res, merged,
                          AnnStats(Column(merged, "bm_ret"), c.trading_days_per_year),
                          AnnStats(Column(merged, "active_ret"), c.trading_days_per_year))

\* the benchmark block of run_single_backtest on a returned result
Comparator(res, bm, c) ==
    IF ~({"date", "close"} \subseteq bm.columns)
    THEN SystemExit("Benchmark file must contain 'date' and 'close' columns.")
    ELSE ComparatorMerged(res, InnerMerge(res.daily, BenchmarkReturns(SortRows(bm.rows, "date"))), c)

-----------------------------------------------------------------------------
(* data/scripts/regime_analysis.py.  Of the daily CSV the columns date,
   net_ret, gross_leverage, bm_ret and active_ret are modelled; beta, alpha_ann
   and corr_with_benchmark are kept as "nan" or "number". *)

\* beta_alpha and the correlation need this many observations
MinObs == 30

\* the columns main() adds as all-missing when the daily CSV lacks them
DailyFilled(daily) ==
    [i \in 1 .. Len(daily.rows) |->
        [date |-> daily.rows[i].date,
         net_ret |-> daily.rows[i].net_ret,
         gross_leverage |-> IF "gross_leverage" \in daily.columns
                            THEN daily.rows[i].gross_leverage ELSE NaN,
         bm_ret |-> IF "bm_ret" \in daily.columns THEN daily.rows[i].bm_ret ELSE NaN,
         active_ret |-> IF "active_ret" \in daily.columns
                        THEN daily.rows[i].active_ret ELSE NaN]]

\* a rolling mean over the bars available (min_periods = 1)
RollingMean_MinPeriods1(close, i, w) ==
    IF i < w THEN FDiv(SumUpTo([k \in 1 .. i |-> close[k]], i), Int2F(i))
    ELSE FDiv(SumUpTo([k \in 1 .. w |-> close[i - w + k]], w), Int2F(w))

\* bm["close"].rolling(w).mean() at row i
RollingMean(close, i, w) ==
    IF i < w THEN NaN
    ELSE FDiv(SumUpTo([k \in 1 .. w |-> close[i - w + k]], w), Int2F(w))

\* bm_ret_from_close and ma
BmMa(bm, w) ==
    [i \in 1 .. Len(bm) |->
        [date |-> bm[i].date, close |-> bm[i].close,
         bm_ret_from_close |-> BmRet(bm, i),
         ma |-> RollingMean(Column(bm, "close"), i, w)]]

\* ma_slope = ma.diff(slope_window)
BmSlope(bm, sw) ==
    [i \in 1 .. Len(bm) |->
        bm[i] @@ [ma_slope |-> IF i > sw THEN FSub(bm[i].ma, bm[i - sw].ma) ELSE NaN]]

\* a labelling that needs the trend only
Regime_SlopeOnly(b) ==
    IF FGt(b.ma_slope, Zero) THEN "BULL"
    ELSE IF FLt(b.ma_slope, Zero) THEN "BEAR"
    ELSE "NORMAL"

\* np.where(bull, "BULL", np.where(bear, "BEAR", "NORMAL"))
Regime(b) ==
    IF FGt(b.close, b.ma) /\ FGt(b.ma_slope, Zero) THEN "BULL"
    ELSE IF FLt(b.close, b.ma) /\ FLt(b.ma_slope, Zero) THEN "BEAR"
    ELSE "NORMAL"

\* bm_ret_used, and the row of m for a daily row d and a benchmark row b
BmRetUsed(d, b) == IF ~IsNaN(d.bm_ret) THEN d.bm_ret ELSE b.bm_ret_from_close

MergedRow(d, b) ==
    [date |-> d.date, net_ret |-> d.net_ret, gross_leverage |-> d.gross_leverage,
     close |-> b.close, ma |-> b.ma, ma_slope |-> b.ma_slope,
     bm_ret_used |-> BmRetUsed(d, b),
     active_ret_used |-> IF ~IsNaN(d.active_ret) THEN d.active_ret
                         ELSE FSub(d.net_ret, BmRetUsed(d, b)),
     regime |-> Regime(b)]

\* m = pd.merge(daily, bm[...], on="date", how="inner") with the derived columns
RegimeMerge(daily, bm) ==
    Flatten([i \in 1 .. Len(daily) |->
                [j \in 1 .. Len(Matches(daily[i].date, bm)) |->
                    MergedRow(daily[i], Matches(daily[i].date, bm)[j])]])

\* a hit rate that reports 0 for an empty series
HitRate_ZeroIfEmpty(r_clean) ==
    IF r_clean = <<>> THEN Zero
    ELSE FDiv(Int2F(Cardinality({i \in 1 .. Len(r_clean) : FGt(r_clean[i], Zero)})),
              Int2F(Len(r_clean)))

\* float((r_clean > 0).mean()), NaN for an empty series
HitRate(r_clean) ==
    IF r_clean = <<>> THEN NaN
    ELSE FDiv(Int2F(Cardinality({i \in 1 .. Len(r_clean) : FGt(r_clean[i], Zero)})),
              Int2F(Len(r_clean)))

\* the rows of g on INVESTED days: gross_leverage.fillna(0.0) > invested_threshold
InvestedRows(g, threshold) ==
    SelectSeq(g, LAMBDA row : FGt(Fillna0(row.gross_leverage), threshold))

\* ann_stats_cagr: the kind of ann_return ("nan" for an empty series)
CagrKind(arr, tdy) ==
    IF arr = <<>> THEN "nan" ELSE PowKind(PortfolioGrowth(arr), tdy, Len(arr))

\* max_drawdown(equity)
MaxDrawdown(equity_arr) ==
    IF equity_arr = <<>> THEN NaN
    ELSE MinUpTo(Drawdowns(equity_arr, One), Len(equity_arr))

\* _masked_max_dd(g[col], m["regime"] == reg): returns holds the days of the
\* regime only, and where() aligns the mask to them, so it keeps every one
MaskedMaxDd(returns) ==
    MaxDrawdown(DropNonFinite(CumProd([i \in 1 .. Len(returns) |->
                                          FAdd(One, Fillna0(returns[i]))])))

\* the days of g on which both series are finite / at least one is
JointRows(g) ==
    SelectSeq(g, LAMBDA row : IsFinite(row.net_ret) /\ IsFinite(row.bm_ret_used))

UnionRows(g) ==
    SelectSeq(g, LAMBDA row : IsFinite(row.net_ret) \/ IsFinite(row.bm_ret_used))

\* beta_alpha: "nan" below MinObs joint observations or without variance of x
BetaKind(joint) ==
    IF Len(joint) < MinObs THEN "nan"
    ELSE IF ~FGt(Variance(Column(joint, "bm_ret_used")), Zero) THEN "nan"
    ELSE "number"

\* clean.corr()[0, 1] over the pairwise complete observations
PearsonKind(joint) ==
    IF Len(joint) < 2 THEN "nan"
    ELSE IF FGt(Variance(Column(joint, "bm_ret_used")), Zero)
            /\ FGt(Variance(Column(joint, "net_ret")), Zero)
    THEN "number" ELSE "nan"

\* corr_sb: clean is the concat of the two cleaned series without dropna, so
\* its length counts the days on which at least one of them is finite
CorrKind(g) ==
    IF Len(UnionRows(g)) >= MinObs THEN PearsonKind(JointRows(g)) ELSE "nan"

\* the column of m behind each series of series_defs
SeriesCol(series) ==
    CASE series = "strategy_net" -> "net_ret"
      [] series = "benchmark_bh" -> "bm_ret_used"
      [] OTHER -> "active_ret_used"

\* beta and alpha_ann of a row: computed for strategy_net, 1.0 and 0.0 for the
\* benchmark, not-a-number for active
RowBeta(series, g) ==
    CASE series = "strategy_net" -> BetaKind(JointRows(g))
      [] series = "benchmark_bh" -> "number"
      [] OTHER -> "nan"

RowCorr(series, g) ==
    CASE series = "strategy_net" -> CorrKind(g)
      [] series = "benchmark_bh" -> "number"
      [] OTHER -> "nan"

\* _compute_block and the row dict of one (regime, series); r is g[col] and
\* inv its INVESTED days
MetricRow(reg, series, g, r, inv, tdy) ==
    [regime |-> reg, n_days |-> Len(g), series |-> series,
     ann_return |-> CagrKind(DropNonFinite(r), tdy),
     max_drawdown_masked |-> MaskedMaxDd(r),
     hit_rate |-> HitRate(DropNonFinite(r)),
     hit_rate_invested |-> HitRate(DropNonFinite(inv)),
     ann_return_invested |-> CagrKind(DropNonFinite(inv), tdy),
     beta |-> RowBeta(series, g), alpha_ann |-> RowBeta(series, g),
     corr_with_benchmark |-> RowCorr(series, g)]

\* the rows of one regime: none when no day has the label
RegimeBlock(reg, g, args) ==
    IF g = <<>> THEN <<>>
    ELSE [k \in 1 .. 3 |->
             LET series == <<"strategy_net", "benchmark_bh", "active">>[k]
             IN  MetricRow(reg, series, g, Column(g, SeriesCol(series)),
                           Column(InvestedRows(g, args.invested_threshold),
                                  SeriesCol(series)),
                           args.trading_days)]

\* for reg in reg_order: g = m[m["regime"] == reg]
RegimeRows(m, args) ==
    Flatten([k \in 1 .. 3 |->
                LET reg == <<"BEAR", "NORMAL", "BULL">>[k]
                IN  RegimeBlock(reg, SelectSeq(m, LAMBDA row : row.regime = reg), args)])

\* float(ann_ret) in ann_stats_cagr fails on a complex number; otherwise the
\* merged table and metrics_long are what the run leaves
RegimeOutput(m, rows) ==
    IF \E i \in 1 .. Len(rows) :
           "complex" \in {rows[i].ann_return, rows[i].ann_return_invested}
    THEN TypeError("float() argument must be a real number, not complex")
    ELSE [status |-> "written", m |-> m, metrics_long |-> rows]

RegimeMerged(m, args) ==
    IF m = <<>>
    THEN SystemExit("No overlapping dates between daily and benchmark.")
    ELSE RegimeOutput(m, SortRows(RegimeRows(m, args), "regime_series"))

\* main() of regime_analysis.py on a daily CSV and a loaded benchmark frame
RegimeAnalysis(daily, bm, args) ==
    IF ~({"date", "net_ret"} \subseteq daily.columns)
    THEN SystemExit("Daily CSV must contain at least ['date','net_ret'].")
    ELSE RegimeMerged(RegimeMerge(SortRows(DailyFilled(daily), "date"),
                                  BmSlope(BmMa(SortRows(bm, "date"), args.ma_window),
                                          args.slope_window)),
                      args)

-----------------------------------------------------------------------------
(* Inputs: the panels and configurations the engine is run on *)

Close == <<100, 1>>

MkRow(sym, date, ret, sig) ==
    [symbol |-> sym, date |-> date, close |-> Close, ret_1d |-> ret, signal |-> sig]

\* BacktestConfig; the costs are large so that their effect is visible in few rows
MkCfg(commission, slippage, leverage, tdy) ==
    [initial_capital |-> <<100, 1>>, commission_bps |-> Int2F(commission),
     slippage_bps |-> Int2F(slippage), max_gross_leverage |-> Int2F(leverage),
     trading_days_per_year |-> tdy]

\* Two-symbol panels.  Cell k of the layout is the row of symbol GridSymbol(k)
\* on date GridDate(k): rows are laid out by descending date, "bbb" before
\* "aaa", so that no panel arrives sorted.
GridDate(k) == NDates - ((k - 1) \div 2)

GridSymbol(k) == IF (k - 1) % 2 = 0 THEN "bbb" ELSE "aaa"

GridSignal(o) == CASE o = "short" -> <<-1, 1>> [] o = "long" -> One [] OTHER -> Zero

GridRet(sym, date) ==
    IF sym = "aaa" THEN (IF date % 2 = 1 THEN <<1, 2>> ELSE <<-1, 2>>) ELSE One

GridPanel(f) ==
    LET idx == SelectSeq([k \in 1 .. 2 * NDates |-> k], LAMBDA k : f[k] # "absent")
    IN  [columns |-> Required,
         rows |-> [i \in 1 .. Len(idx) |->
                      MkRow(GridSymbol(idx[i]), GridDate(idx[i]),
                            GridRet(GridSymbol(idx[i]), GridDate(idx[i])),
                            GridSignal(f[idx[i]]))]]

\* "aaa" has a row on every date with a signal in {-1, 0, 1}; "bbb" has a row
\* on any subset of the dates, short or long.
GridPanels ==
    {GridPanel([k \in 1 .. 2 * NDates |->
                   IF GridSymbol(k) = "aaa" THEN a[GridDate(k)] ELSE b[GridDate(k)]]) :
        a \in [Dates -> {"short", "flat", "long"}],
        b \in [Dates -> {"absent", "short", "long"}]}

\* Ragged panels: each symbol has its own set of dates; "aaa" is long and "bbb"
\* is short on every row it has.
RaggedPanels ==
    {GridPanel([k \in 1 .. 2 * NDates |->
                   IF GridSymbol(k) = "aaa" THEN a[GridDate(k)] ELSE b[GridDate(k)]]) :
        a \in [Dates -> {"absent", "long"}],
        b \in [Dates -> {"absent", "short"}]}

GridCfgs == {MkCfg(0, 0, 1, 252), MkCfg(2500, 0, 2, 252)}

\* One-symbol panels with a row on every date, with missing, infinite and
\* large returns and with signals outside [-1, 1]: always short, always 2
\* (clipped to long), or short on odd and 2 on even dates.
EdgeRets == {NaN, PInf, One, <<2, 1>>}

EdgeSignal(pattern, date) ==
    CASE pattern = "short" -> <<-1, 1>>
      [] pattern = "long" -> <<2, 1>>
      [] OTHER -> IF date % 2 = 1 THEN <<-1, 1>> ELSE <<2, 1>>

EdgePanels ==
    {[columns |-> Required,
      rows |-> [i \in 1 .. NDates |-> MkRow("aaa", i, r[i], EdgeSignal(g, i))]] :
        r \in [1 .. NDates -> EdgeRets], g \in {"short", "long", "mixed"}}

EdgeCfgs == {MkCfg(c, 0, 1, 250) : c \in {0, 2500}}

\* Panels that lack columns, and panels whose symbol column is upper case.
BasicRows(sym) == <<MkRow(sym, 1, <<1, 2>>, One), MkRow(sym, 2, <<1, 2>>, One)>>

ColumnPanels ==
    {[columns |-> Required \ S, rows |-> BasicRows("aaa")] :
        S \in {T \in SUBSET Required : Cardinality(T) \in {1, 2}}}

CasePanels ==
    {[columns |-> Required, rows |-> BasicRows(sym)] : sym \in {"AAA", "aaa"}}

\* a frame with the required columns and no row
EmptyPanels == {[columns |-> Required, rows |-> <<>>]}

\* a configuration with an infinite commission
InfCostCfgs == {[MkCfg(0, 0, 1, 252) EXCEPT !.commission_bps = PInf]}

ColumnCfgs == {MkCfg(c, s, 1, 252) : c \in {0, 2500}, s \in {0, 2500}}

\* One-symbol panels of 1 .. NDates rows with the same ret_1d and the same
\* signal on every row (the toy panels of test_engine.py), rows given latest first.
ConstRets == {<<-1, 1>>, <<-1, 2>>, Zero, <<1, 2>>}

ConstPanels ==
    {[columns |-> Required,
      rows |-> [i \in 1 .. n |-> MkRow("aaa", n + 1 - i, r, s)]] :
        n \in 1 .. NDates, r \in ConstRets, s \in {Zero, One}}

\* Benchmark price series: a row on each date of a subset of BenchDates (the
\* last of them lies after every date of the panels), rows given latest first,
\* possibly with the latest row given twice.
BenchDates == {1, NDates, NDates + 1}

BenchClose(date) == IF date % 2 = 0 THEN <<100, 1>> ELSE <<150, 1>>

BenchRow(date) == [date |-> date, close |-> BenchClose(date)]

RECURSIVE LatestFirst(_)
LatestFirst(D) ==
    IF D = {} THEN <<>>
    ELSE <<BenchRow(Max(D))>> \o LatestFirst(D \ {Max(D)})

BenchRows(D, dup) ==
    IF dup /\ D # {} THEN <<BenchRow(Max(D))>> \o LatestFirst(D) ELSE LatestFirst(D)

Benchmarks ==
    {[given |-> TRUE, columns |-> {"date", "close"}, rows |-> BenchRows(D, dup)] :
        D \in SUBSET BenchDates, dup \in BOOLEAN}
    \cup {[given |-> TRUE, columns |-> {"date"}, rows |-> <<>>]}

\* no --benchmark argument
NoBenchmark == [given |-> FALSE, columns |-> {}, rows |-> <<>>]

NoOutput == [status |-> "none"]

\* Inputs of the regime analysis.  The benchmark has a row on every date
\* 0 .. n with a close of 100 or 200 (100 on date 0), rows given latest first;
\* the daily CSV has a row on every date 1 .. n.
RegimeArgs ==
    [ma_window |-> 2, slope_window |-> 1, trading_days |-> 252,
     invested_threshold |-> <<1, 20>>]

BmPrices(n, close) ==
    [i \in 1 .. n + 1 |->
        [date |-> n + 1 - i,
         close |-> IF n + 1 - i = 0 THEN <<100, 1>> ELSE close[n + 1 - i]]]

DailyRow(date, net_ret) ==
    [date |-> date, net_ret |-> net_ret,
     gross_leverage |-> IF date % 2 = 1 THEN One ELSE Zero,
     bm_ret |-> NaN, active_ret |-> NaN]

DailyColumns == {{"date", "net_ret"}, {"date", "net_ret", "gross_leverage"}}

\* short runs: every close pattern with every pattern of net returns
ShortInputs ==
    {[given |-> TRUE,
      daily |-> [columns |-> cols,
                 rows |-> [i \in 1 .. NRegimeDays |-> DailyRow(i, net[i])]],
      bm |-> BmPrices(NRegimeDays, close),
      args |-> RegimeArgs] :
        cols \in DailyColumns,
        net \in [1 .. NRegimeDays -> {<<-1, 2>>, <<1, 2>>, NaN}],
        close \in [1 .. NRegimeDays -> {<<100, 1>>, <<200, 1>>}]}

\* long runs of about MinObs days in one regime: the close alternates between
\* 200 and 100 (a flat average, NORMAL on every day); the net return is missing
\* on the first k days, 0 on every third day and the benchmark return otherwise
LongClose(t) == IF t % 2 = 1 THEN <<200, 1>> ELSE <<100, 1>>

LongNet(t, k) ==
    IF t <= k THEN NaN
    ELSE IF t % 3 = 0 THEN Zero
    ELSE IF t % 2 = 1 THEN One ELSE <<-1, 2>>

LongInputs ==
    {[given |-> TRUE,
      daily |-> [columns |-> cols,
                 rows |-> [i \in 1 .. n |-> DailyRow(i, LongNet(i, k))]],
      bm |-> BmPrices(n, [t \in 1 .. n |-> LongClose(t)]),
      args |-> RegimeArgs] :
        cols \in DailyColumns, n \in (MinObs - 1) .. (MinObs + 1), k \in 0 .. 2}

\* a daily CSV whose dates all lie after the benchmark, and one without net_ret
OddInputs ==
    {[given |-> TRUE,
      daily |-> [columns |-> cols,
                 rows |-> [i \in 1 .. 2 |-> DailyRow(first + i, One)]],
      bm |-> BmPrices(NRegimeDays, [t \in 1 .. NRegimeDays |-> LongClose(t)]),
      args |-> RegimeArgs] :
        cols \in DailyColumns \cup {{"date"}}, first \in {0, NRegimeDays}}

\* a daily CSV that starts on the benchmark's first bar and misses its second:
\* the benchmark has a row on every date 1 .. n with a close of 100, 200 or 300
GapInputs ==
    {[given |-> TRUE,
      daily |-> [columns |-> cols,
                 rows |-> [i \in 1 .. NRegimeDays - 1 |->
                              DailyRow(IF i = 1 THEN 1 ELSE i + 1, <<1, 2>>)]],
      bm |-> [i \in 1 .. NRegimeDays |->
                 [date |-> NRegimeDays + 1 - i, close |-> close[NRegimeDays + 1 - i]]],
      args |-> RegimeArgs] :
        cols \in DailyColumns,
        close \in [1 .. NRegimeDays -> {<<100, 1>>, <<200, 1>>, <<300, 1>>}]}

NoRegimeInput == [given |-> FALSE]

NoStrategyInput == [given |-> FALSE]

NoTraderInput == [given |-> FALSE]

NoHysteresisInput == [given |-> FALSE]

Requests == {"aaa", "AAA", "bbb"}

NoCall == [op |-> "none", symbol |-> ""]

NoResult == [status |-> "none"]

-----------------------------------------------------------------------------
(* The engine as a state machine: a panel and a configuration are given and
   one call of the engine is made on them (as run_single_backtest does); the
   call leaves its result and works on a copy of the panel. *)

Init ==
    /\ \/ /\ \/ df \in GridPanels \cup RaggedPanels \cup ConstPanels /\ cfg \in GridCfgs
             \/ df \in EdgePanels /\ cfg \in EdgeCfgs
             \/ df \in ColumnPanels \cup CasePanels /\ cfg \in ColumnCfgs
             \/ df \in ConstPanels \cup EmptyPanels /\ cfg \in InfCostCfgs
             \/ df \in EmptyPanels /\ cfg \in GridCfgs
          /\ benchmark = NoBenchmark
       \/ /\ df \in ConstPanels
          /\ cfg \in EdgeCfgs
          /\ benchmark \in Benchmarks
    /\ call = NoCall
    /\ result = NoResult
    /\ output = NoOutput
    /\ regime_input = NoRegimeInput
    /\ regime_output = NoOutput
    /\ strategy_input = NoStrategyInput
    /\ strategy_output = NoOutput
    /\ trader_input = NoTraderInput
    /\ trader_output = NoOutput
    /\ hysteresis_input = NoHysteresisInput
    /\ hysteresis_output = NoOutput

\* engine.run_single_symbol(df, symbol)
run_single_symbol ==
    \E symbol \in Requests :
        /\ call = NoCall
        /\ call' = [op |-> "run_single_symbol", symbol |-> symbol]
        /\ result' = RunSingleSymbol(df, symbol, cfg)
        /\ df' = DfAfterSingle(df, symbol)
        /\ UNCHANGED <<cfg, benchmark, output, regime_input, regime_output, strategy_vars, trader_vars,
                   hysteresis_vars>>

\* engine.run_portfolio(df)
run_portfolio ==
    /\ call = NoCall
    /\ call' = [op |-> "run_portfolio", symbol |-> ""]
    /\ result' = RunPortfolio(df, cfg)
    /\ df' = DfAfterPortfolio(df)
    /\ UNCHANGED <<cfg, benchmark, output, regime_input, regime_output, strategy_vars, trader_vars,
                   hysteresis_vars>>

\* the benchmark block of run_single_backtest and the output that follows it;
\* output holds the summary and the tables the run emits
benchmark_comparator ==
    /\ benchmark.given
    /\ call # NoCall
    /\ result.status = "ok"
    /\ output = NoOutput
    /\ output' = Comparator(result, benchmark, cfg)
    /\ UNCHANGED <<df, cfg, call, result, benchmark, regime_input, regime_output, strategy_vars, trader_vars,
                   hysteresis_vars>>

Next == run_single_symbol \/ run_portfolio \/ benchmark_comparator

\* the regime analysis is a program of its own: it reads a daily CSV and a
\* benchmark and leaves the merged table and metrics_long
RegimeInit ==
    /\ df \in EmptyPanels
    /\ cfg = MkCfg(0, 0, 1, 252)
    /\ call = NoCall
    /\ result = NoResult
    /\ benchmark = NoBenchmark
    /\ output = NoOutput
    /\ regime_input \in ShortInputs \cup LongInputs \cup OddInputs \cup GapInputs
    /\ regime_output = NoOutput
    /\ strategy_input = NoStrategyInput
    /\ strategy_output = NoOutput
    /\ trader_input = NoTraderInput
    /\ trader_output = NoOutput
    /\ hysteresis_input = NoHysteresisInput
    /\ hysteresis_output = NoOutput

\* main() of data/scripts/regime_analysis.py
regime_analysis ==
    /\ regime_input.given
    /\ regime_output = NoOutput
    /\ regime_output' = RegimeAnalysis(regime_input.daily, regime_input.bm,
                                       regime_input.args)
    /\ UNCHANGED <<df, cfg, call, result, benchmark, output, regime_input, strategy_vars, trader_vars,
                   hysteresis_vars>>

RegimeNext == regime_analysis

RegimeSpec == RegimeInit /\ [][RegimeNext]_vars

Spec == Init /\ [][Next]_vars

-----------------------------------------------------------------------------
(* The signal strategies: strategies/momentum.py, strategies/mean_reversion.py
   and strategies/rsi.py.  A frame is [columns, rows]; a row has a symbol, a
   date and a close. *)

RECURSIVE ShiftIdx(_, _, _)
\* index of the k-th previous row of the symbol of row i (0 if none):
\* groupby("symbol") ... shift(k)
ShiftIdx(rows, i, k) ==
    IF k = 0 \/ i = 0 THEN i ELSE ShiftIdx(rows, PrevIdx(rows, i), k - 1)

\* momentum = s / s.shift(lookback) - 1.0 within the symbol
Momentum(rows, i, lookback) ==
    IF ShiftIdx(rows, i, lookback) = 0 THEN NaN
    ELSE FSub(FDiv(rows[i].close, rows[ShiftIdx(rows, i, lookback)].close), One)

\* the two .loc assignments of MomentumStrategy without the long_only switch
MomentumSignal_AlwaysShort(momentum, p) ==
    IF FLt(momentum, p.entry_short) THEN -1
    ELSE IF ~p.short_only /\ FGt(momentum, p.entry_long) THEN 1
    ELSE 0

\* signal = 0, then 1 where momentum > entry_long, then -1 where
\* momentum < entry_short
MomentumSignal(momentum, p) ==
    IF ~p.long_only /\ FLt(momentum, p.entry_short) THEN -1
    ELSE IF ~p.short_only /\ FGt(momentum, p.entry_long) THEN 1
    ELSE 0

MomentumRows(sorted, p) ==
    [i \in 1 .. Len(sorted) |->
        [symbol |-> sorted[i].symbol, date |-> sorted[i].date,
         close |-> sorted[i].close,
         momentum |-> Momentum(sorted, i, p.lookback),
         signal |-> MomentumSignal(Momentum(sorted, i, p.lookback), p)]]

\* MomentumStrategy.generate_signals
MomentumGenerateSignals(d, p) ==
    IF {"symbol", "date", "close"} \ d.columns # {}
    THEN ValueError("MomentumStrategy: missing columns", {"symbol", "date", "close"} \ d.columns)
    ELSE [status |-> "ok", rows |-> MomentumRows(SortRows(d.rows, "symbol_date"), p)]

\* the closes of the last w rows of the symbol of row i (<<>> if there are
\* fewer): s.rolling(w, min_periods = w)
RollingWindow(rows, i, w) ==
    IF ShiftIdx(rows, i, w - 1) = 0 THEN <<>>
    ELSE [k \in 1 .. w |-> rows[ShiftIdx(rows, i, w - k)].close]

\* zscore = (close - ma) / std, kept as the deviation and the squared std
\* (the variance with ddof = 0) so that no square root is taken
ZScore(rows, i, w) ==
    IF RollingWindow(rows, i, w) = <<>> THEN [dev |-> NaN, var |-> NaN]
    ELSE [dev |-> FSub(rows[i].close,
                       FDiv(SumUpTo(RollingWindow(rows, i, w), w), Int2F(w))),
          var |-> Variance(RollingWindow(rows, i, w))]

\* zscore < t for a finite t
ZLt(z, t) ==
    /\ ~IsNaN(z.dev)
    /\ ~IsNaN(z.var)
    /\ IF z.var = Zero THEN FLt(z.dev, Zero)
       ELSE IF FLt(t, Zero)
       THEN FLt(z.dev, Zero) /\ FGt(FMul(z.dev, z.dev), FMul(FMul(t, t), z.var))
       ELSE FLt(z.dev, Zero) \/ FLt(FMul(z.dev, z.dev), FMul(FMul(t, t), z.var))

\* zscore > t for a finite t
ZGt(z, t) == ZLt([dev |-> Neg(z.dev), var |-> z.var], Neg(t))

\* signal = 0, then 1 where zscore < -z_entry, then -1 where zscore > z_entry
MeanReversionSignal(z, p) ==
    IF ~p.long_only /\ ZGt(z, p.z_entry) THEN -1
    ELSE IF ~p.short_only /\ ZLt(z, Neg(p.z_entry)) THEN 1
    ELSE 0

MeanReversionRows(sorted, p) ==
    [i \in 1 .. Len(sorted) |->
        [symbol |-> sorted[i].symbol, date |-> sorted[i].date,
         close |-> sorted[i].close,
         zscore |-> ZScore(sorted, i, p.window),
         signal |-> MeanReversionSignal(ZScore(sorted, i, p.window), p)]]

\* MeanReversionStrategy.generate_signals
MeanReversionGenerateSignals(d, p) ==
    IF {"symbol", "date", "close"} \ d.columns # {}
    THEN ValueError("MeanReversionStrategy: missing columns",
                    {"symbol", "date", "close"} \ d.columns)
    ELSE [status |-> "ok", rows |-> MeanReversionRows(SortRows(d.rows, "symbol_date"), p)]

\* delta = close.diff() over the rows of the frame as they stand
Delta(rows, i) == IF i = 1 THEN NaN ELSE FSub(rows[i].close, rows[i - 1].close)

\* gain = delta.where(delta > 0, 0.0)
Gain(rows, i) == IF FGt(Delta(rows, i), Zero) THEN Delta(rows, i) ELSE Zero

\* loss = -delta.where(delta < 0, 0.0)
Loss(rows, i) == IF FLt(Delta(rows, i), Zero) THEN Neg(Delta(rows, i)) ELSE Zero

RECURSIVE Ewm(_, _, _)
\* x.ewm(alpha = 1 / period, adjust = False).mean() at row i, before min_periods
Ewm(x, i, period) ==
    IF i = 1 THEN x[1]
    ELSE FAdd(FMul(Rat(period - 1, period), Ewm(x, i - 1, period)),
              FMul(Rat(1, period), x[i]))

\* rsi = 100 - 100 / (1 + avg_gain / avg_loss); min_periods leaves the first
\* period - 1 rows undefined
Rsi(gain, loss, i, period) ==
    IF i < period THEN NaN
    ELSE FSub(<<100, 1>>,
              FDiv(<<100, 1>>,
                   FAdd(One, FDiv(Ewm(gain, i, period), Ewm(loss, i, period)))))

RsiVals(rows, period) ==
    [i \in 1 .. Len(rows) |->
        Rsi([k \in 1 .. Len(rows) |-> Gain(rows, k)],
            [k \in 1 .. Len(rows) |-> Loss(rows, k)], i, period)]

\* one pass of the loop body on a defined value val
StepSig(curr_sig, val, p) ==
    IF FLt(val, p.lower_bound) THEN 1
    ELSE IF FGt(val, p.upper_bound) THEN (IF p.long_only THEN 0 ELSE -1)
    ELSE IF curr_sig = 1 /\ FGt(val, p.exit_long_level) THEN 0
    ELSE IF curr_sig = -1 /\ FLt(val, p.exit_short_level) THEN 0
    ELSE curr_sig

RECURSIVE CurrSig(_, _, _)
\* curr_sig after the pass on row i (rows are numbered from 1, so the loop
\* for i in range(period, len(df)) runs on the rows period + 1 .. len)
CurrSig(rsi_vals, i, p) ==
    IF i <= p.period THEN 0
    ELSE IF IsNaN(rsi_vals[i]) THEN CurrSig(rsi_vals, i - 1, p)
    ELSE StepSig(CurrSig(rsi_vals, i - 1, p), rsi_vals[i], p)

\* sig_arr[i]: 0 before the loop starts and on the rows it skips
SigArr(rsi_vals, i, p) ==
    IF i <= p.period \/ IsNaN(rsi_vals[i]) THEN 0 ELSE CurrSig(rsi_vals, i, p)

RsiRows(rows, rsi_vals, p) ==
    [i \in 1 .. Len(rows) |->
        [symbol |-> rows[i].symbol, date |-> rows[i].date, close |-> rows[i].close,
         rsi |-> rsi_vals[i], signal |-> SigArr(rsi_vals, i, p)]]

\* RSIStrategy.generate_signals
RsiGenerateSignals(d, p) ==
    IF "close" \notin d.columns
    THEN [status |-> "ok",
          rows |-> [i \in 1 .. Len(d.rows) |->
                       [symbol |-> d.rows[i].symbol, date |-> d.rows[i].date,
                        close |-> d.rows[i].close, rsi |-> NaN, signal |-> 0]]]
    ELSE [status |-> "ok", rows |-> RsiRows(d.rows, RsiVals(d.rows, p.period), p)]

\* strategy.generate_signals(df) for the strategy class named
GenerateSignals(strategy, d, p) ==
    CASE strategy = "MomentumStrategy" -> MomentumGenerateSignals(d, p)
      [] strategy = "MeanReversionStrategy" -> MeanReversionGenerateSignals(d, p)
      [] OTHER -> RsiGenerateSignals(d, p)

-----------------------------------------------------------------------------
(* Inputs of the strategies *)

BarCloses == {<<90, 1>>, <<100, 1>>, <<110, 1>>}

StrategyColumns == {"symbol", "date", "close"}

\* one symbol, a bar on every date 1 .. NBars, given in date order
SeriesFrames ==
    {[columns |-> StrategyColumns,
      rows |-> [i \in 1 .. NBars |-> [symbol |-> "aaa", date |-> i, close |-> c[i]]]] :
        c \in [1 .. NBars -> BarCloses]}

\* the rows of two symbols: aaa has a bar on every date 1 .. 3 and bbb on the
\* dates 1 .. 2; layout says where the rows of bbb stand in the file
PanelRows(a, b, layout) ==
    LET ra == [i \in 1 .. 3 |-> [symbol |-> "aaa", date |-> i, close |-> a[i]]]
        rb == [i \in 1 .. 2 |-> [symbol |-> "bbb", date |-> i, close |-> b[i]]]
    IN  CASE layout = "after" -> ra \o rb
          [] layout = "before" -> rb \o ra
          [] OTHER -> <<ra[1], rb[1], ra[2], rb[2], ra[3]>>

PanelFrames ==
    {[columns |-> StrategyColumns, rows |-> PanelRows(a, b, layout)] :
        a \in [1 .. 3 -> {<<90, 1>>, <<110, 1>>}],
        b \in [1 .. 2 -> {<<90, 1>>, <<110, 1>>}],
        layout \in {"after", "before", "by_date"}}

\* a frame without a close column
NoCloseFrames ==
    {[columns |-> {"symbol", "date"},
      rows |-> [i \in 1 .. 2 |-> [symbol |-> "aaa", date |-> i, close |-> NaN]]]}

StrategyFrames == SeriesFrames \cup PanelFrames \cup NoCloseFrames

MomentumParams ==
    {[lookback |-> lb, entry_long |-> el, entry_short |-> es,
      long_only |-> lo, short_only |-> so] :
        lb \in {1, 2}, el \in {<<1, 20>>, <<-1, 5>>}, es \in {<<-1, 20>>, <<1, 5>>},
        lo \in BOOLEAN, so \in BOOLEAN}

MeanReversionParams ==
    {[window |-> w, z_entry |-> z, long_only |-> lo, short_only |-> so] :
        w \in {2, 3}, z \in {<<1, 2>>, One, <<-1, 2>>},
        lo \in BOOLEAN, so \in BOOLEAN}

RsiParams ==
    {[period |-> n, lower_bound |-> b[1], upper_bound |-> b[2],
      long_only |-> lo, exit_long_level |-> <<50, 1>>, exit_short_level |-> <<50, 1>>] :
        n \in {1, 2}, b \in {<<(<<30, 1>>), (<<70, 1>>)>>, <<(<<70, 1>>), (<<30, 1>>)>>},
        lo \in BOOLEAN}

StrategyInputs ==
    {[given |-> TRUE, strategy |-> "MomentumStrategy", params |-> p, df |-> d] :
        p \in MomentumParams, d \in StrategyFrames}
    \cup
    {[given |-> TRUE, strategy |-> "MeanReversionStrategy", params |-> p, df |-> d] :
        p \in MeanReversionParams, d \in StrategyFrames}
    \cup
    {[given |-> TRUE, strategy |-> "RSIStrategy", params |-> p, df |-> d] :
        p \in RsiParams, d \in StrategyFrames}

-----------------------------------------------------------------------------
(* A strategy as a state machine: a frame and a parametrised strategy are
   given, and one call of generate_signals leaves the signals frame. *)

StrategyInit ==
    /\ df \in EmptyPanels
    /\ cfg = MkCfg(0, 0, 1, 252)
    /\ call = NoCall
    /\ result = NoResult
    /\ benchmark = NoBenchmark
    /\ output = NoOutput
    /\ regime_input = NoRegimeInput
    /\ regime_output = NoOutput
    /\ strategy_input \in StrategyInputs
    /\ strategy_output = NoOutput
    /\ trader_input = NoTraderInput
    /\ trader_output = NoOutput
    /\ hysteresis_input = NoHysteresisInput
    /\ hysteresis_output = NoOutput

\* signals = strategy.generate_signals(df)
generate_signals ==
    /\ strategy_input.given
    /\ strategy_output = NoOutput
    /\ strategy_output' = GenerateSignals(strategy_input.strategy, strategy_input.df,
                                          strategy_input.params)
    /\ UNCHANGED <<df, cfg, call, result, benchmark, output, regime_input,
                   regime_output, strategy_input, trader_vars, hysteresis_vars>>

StrategyNext == generate_signals

StrategySpec == StrategyInit /\ [][StrategyNext]_vars

-----------------------------------------------------------------------------
(* The daily trading script: main() of app/daily_trader.py.  The answers of
   the broker (wallet, positions) and of trader.generate_signal are inputs;
   money is in exact rationals, prices are positive. *)

\* int(x) of a finite number: truncation toward zero
Trunc(x) == IF x[1] >= 0 THEN x[1] \div x[2] ELSE -((-x[1]) \div x[2])

\* the action of a signal that went from prev to curr ("skip" for continue)
Action(curr, prev, long_only) ==
    IF curr = prev THEN "skip"
    ELSE IF long_only
    THEN IF curr = 1 THEN "BUY"
         ELSE IF prev = 1 THEN "SELL"
         ELSE "skip"
    ELSE IF curr = 1 THEN "BUY"
    ELSE IF curr = -1 THEN "SHORT"
    ELSE IF prev = 1 THEN "SELL"
    ELSE IF prev = -1 THEN "COVER"
    ELSE "skip"

\* candidates: the results without error whose signal changed, with their action
Candidates(results, long_only) ==
    LET acted == [i \in 1 .. Len(results) |->
                     results[i] @@
                     [action |-> IF results[i].error THEN "skip"
                                 ELSE Action(results[i].signal, results[i].prev_signal,
                                             long_only)]]
    IN  SelectSeq(acted, LAMBDA c : c.action # "skip")

\* held_qty_map.get(uic, 0)
HeldQty(positions, uic) ==
    IF \E k \in 1 .. Len(positions) : positions[k].uic = uic
    THEN positions[CHOOSE k \in 1 .. Len(positions) : positions[k].uic = uic].qty
    ELSE 0

\* calculated_exposure_pln: qty * close over the held instruments analysed
ExposurePln(results, positions) ==
    SumUpTo([i \in 1 .. Len(results) |->
                IF results[i].error THEN Zero
                ELSE FMul(Int2F(HeldQty(positions, results[i].uic)), results[i].close)],
            Len(results))

\* global_remaining = max_capital - calculated_exposure_pln / fx_rate
GlobalRemaining(results, positions, args) ==
    FSub(args.max_capital, FDiv(ExposurePln(results, positions), args.fx_rate))

UsableCash(fetched, total_cash, global_remaining) ==
    IF ~fetched \/ FLe(global_remaining, Zero) THEN Zero
    ELSE FMin(total_cash, global_remaining)

\* get_rank_score
RankScore(item) == IF item.score.some THEN FAbs(item.score.val) ELSE Zero

\* final_daily_alloc = min(min(total_cash * allocation_pct, global_remaining),
\*                         max_daily_spend) * 0.95
FinalDailyAlloc(total_cash, global_remaining, args) ==
    FMul(FMin(FMin(FMul(total_cash, args.allocation_pct), global_remaining),
              args.max_daily_spend),
         <<19, 20>>)

\* qty = int(final_daily_alloc * score / total_score * fx_rate / price)
AllocatedQty(pick, alloc, total_score, args) ==
    Trunc(FDiv(FMul(FMul(alloc, FDiv(RankScore(pick), total_score)), args.fx_rate),
               pick.close))

EntryOrder(pick, amount) ==
    [uic |-> pick.uic, side |-> IF pick.action = "BUY" THEN "Buy" ELSE "Sell",
     amount |-> amount, price |-> pick.close,
     reason |-> [kind |-> "Entry", action |-> pick.action]]

\* entries sized by their share of the score; an entry of less than one share
\* is dropped
AllocatedOrders(valid_entries, alloc, total_score, args) ==
    IF ~FGt(total_score, Zero) THEN <<>>
    ELSE LET sized == [i \in 1 .. Len(valid_entries) |->
                          EntryOrder(valid_entries[i],
                                     AllocatedQty(valid_entries[i], alloc, total_score, args))]
         IN  SelectSeq(sized, LAMBDA o : o.amount >= 1)

\* fixed amount mode
FixedOrders(entries, args) ==
    [i \in 1 .. Len(entries) |-> EntryOrder(entries[i], args.amount)]

\* the orders of "--- Process Entries ---"
EntryOrders(entries, usable_cash, total_cash, global_remaining, args) ==
    IF args.auto_allocate /\ entries # <<>> /\ FGt(usable_cash, Zero)
    THEN AllocatedOrders(SelectSeq(entries, LAMBDA c : c.score.some),
                         FinalDailyAlloc(total_cash, global_remaining, args),
                         SumUpTo([i \in 1 .. Len(entries) |-> RankScore(entries[i])],
                                 Len(entries)),
                         args)
    ELSE IF entries # <<>> /\ ~(FLe(usable_cash, Zero) /\ args.auto_allocate)
    THEN FixedOrders(entries, args)
    ELSE <<>>

\* the orders of "--- Process Exits ---": the held quantity, or args.amount in
\* a dry run without position data
ExitOrders(exits, positions, args) ==
    LET sized == [i \in 1 .. Len(exits) |->
                     [uic |-> exits[i].uic,
                      side |-> IF exits[i].action = "SELL" THEN "Sell" ELSE "Buy",
                      amount |-> IF HeldQty(positions, exits[i].uic) > 0
                                 THEN HeldQty(positions, exits[i].uic)
                                 ELSE IF positions = <<>> /\ ~args.execute THEN args.amount
                                 ELSE 0,
                      price |-> exits[i].close,
                      reason |-> [kind |-> "Exit", action |-> exits[i].action]]]
    IN  SelectSeq(sized, LAMBDA o : o.amount > 0)

\* main() from "Limit Check" on
PlannedOrders(candidates, positions, total_cash, global_remaining, fetched, args) ==
    [status |-> "planned",
     final_orders |->
         EntryOrders(SelectSeq(candidates, LAMBDA c : c.action \in {"BUY", "SHORT"}),
                     UsableCash(fetched, total_cash, global_remaining),
                     total_cash, global_remaining, args)
         \o ExitOrders(SelectSeq(candidates, LAMBDA c : c.action \in {"SELL", "COVER"}),
                       positions, args)]

\* main() once the wallet and the positions are known
TraderAnalysed(candidates, results, positions, total_cash, fetched, args) ==
    IF candidates = <<>> THEN [status |-> "no_trades", final_orders |-> <<>>]
    ELSE PlannedOrders(candidates, positions, total_cash,
                       GlobalRemaining(results, positions, args), fetched, args)

\* main() of daily_trader.py: the wallet and the positions are fetched only
\* with --auto-allocate or --execute
DailyTrader(inp) ==
    IF (inp.args.auto_allocate \/ inp.args.execute) /\ ~inp.wallet.ok
    THEN [status |-> "no_wallet", final_orders |-> <<>>]
    ELSE IF inp.args.auto_allocate \/ inp.args.execute
    THEN TraderAnalysed(Candidates(inp.results, inp.args.long_only), inp.results,
                        inp.positions, inp.wallet.total_cash, TRUE, inp.args)
    ELSE TraderAnalysed(Candidates(inp.results, inp.args.long_only), inp.results,
                        <<>>, Zero, FALSE, inp.args)

-----------------------------------------------------------------------------
(* Inputs of the daily trader *)

\* what generate_signal answers for an instrument: an error, or a signal with
\* the previous one
SignalAnswers ==
    {[error |-> TRUE, signal |-> 0, prev_signal |-> 0]}
    \cup {[error |-> FALSE, signal |-> c, prev_signal |-> q] :
              c \in {-1, 0, 1}, q \in {-1, 0, 1}}

NoScore == [some |-> FALSE, val |-> Zero]

\* two instruments: uic 1 at 100 PLN, with or without a momentum, and uic 2 at
\* 1000 PLN
TraderResults ==
    {<<a1 @@ [uic |-> 1, close |-> <<100, 1>>, score |-> sc],
       a2 @@ [uic |-> 2, close |-> <<1000, 1>>,
              score |-> [some |-> TRUE, val |-> <<1, 5>>]]>> :
        a1 \in SignalAnswers, a2 \in SignalAnswers,
        sc \in {NoScore, [some |-> TRUE, val |-> <<-1, 10>>]}}

TraderLimits ==
    {[amount |-> 1, max_capital |-> <<500000, 1>>, max_daily_spend |-> <<50000, 1>>],
     [amount |-> 300, max_capital |-> <<500000, 1>>, max_daily_spend |-> <<50000, 1>>],
     [amount |-> 1, max_capital |-> <<500000, 1>>, max_daily_spend |-> <<1000, 1>>],
     [amount |-> 1, max_capital |-> Zero, max_daily_spend |-> <<50000, 1>>]}

TraderArgs ==
    {l @@ [long_only |-> lo, auto_allocate |-> au, execute |-> ex,
           allocation_pct |-> One, fx_rate |-> <<4, 1>>] :
        l \in TraderLimits, lo \in BOOLEAN, au \in BOOLEAN, ex \in BOOLEAN}

Wallets ==
    {[ok |-> FALSE, total_cash |-> Zero], [ok |-> TRUE, total_cash |-> Zero],
     [ok |-> TRUE, total_cash |-> <<100000, 1>>]}

Positions == {<<>>, <<[uic |-> 1, qty |-> 10]>>}

TraderInputs ==
    {[given |-> TRUE, args |-> a, wallet |-> w, positions |-> ps, results |-> r] :
        a \in TraderArgs, w \in Wallets, ps \in Positions, r \in TraderResults}

-----------------------------------------------------------------------------
(* The daily trader as a state machine: one run plans its orders. *)

TraderInit ==
    /\ df \in EmptyPanels
    /\ cfg = MkCfg(0, 0, 1, 252)
    /\ call = NoCall
    /\ result = NoResult
    /\ benchmark = NoBenchmark
    /\ output = NoOutput
    /\ regime_input = NoRegimeInput
    /\ regime_output = NoOutput
    /\ strategy_input = NoStrategyInput
    /\ strategy_output = NoOutput
    /\ trader_input \in TraderInputs
    /\ trader_output = NoOutput
    /\ hysteresis_input = NoHysteresisInput
    /\ hysteresis_output = NoOutput

\* one run of daily_trader.py
daily_trader ==
    /\ trader_input.given
    /\ trader_output = NoOutput
    /\ trader_output' = DailyTrader(trader_input)
    /\ UNCHANGED <<df, cfg, call, result, benchmark, output, regime_input,
                   regime_output, strategy_vars, trader_input, hysteresis_vars>>

TraderNext == daily_trader

TraderSpec == TraderInit /\ [][TraderNext]_vars

-----------------------------------------------------------------------------
(* The hysteresis machines: _symbol_signals and the filters that follow it in
   HybridLSTMRegimeBlendStrategy.generate_signals
   (strategies/hybrid_lstm_strategy.py), and the hysteresis loop of
   LSTMStrategy.generate_signals (strategies/lstm_strategy.py).  The rows are
   those of one symbol in date order; the scores and predictions the networks
   produce are inputs. *)

\* a step that turns the position over when the score crosses to the other
\* entry band
SymbolStep_Reversal(st, z, reb, c) ==
    IF st.pos = 0
    THEN IF reb /\ FGt(z, c.z_entry) THEN [pos |-> 1, days_in_pos |-> 1]
         ELSE IF reb /\ FLt(z, Neg(c.z_entry)) THEN [pos |-> -1, days_in_pos |-> 1]
         ELSE [pos |-> 0, days_in_pos |-> 0]
    ELSE IF reb /\ st.days_in_pos + 1 >= c.min_hold_days /\ st.pos = 1 /\ FLt(z, c.z_exit)
    THEN (IF FLt(z, Neg(c.z_entry)) THEN [pos |-> -1, days_in_pos |-> 1]
          ELSE [pos |-> 0, days_in_pos |-> 0])
    ELSE IF reb /\ st.days_in_pos + 1 >= c.min_hold_days /\ st.pos = -1
            /\ FGt(z, Neg(c.z_exit))
    THEN (IF FGt(z, c.z_entry) THEN [pos |-> 1, days_in_pos |-> 1]
          ELSE [pos |-> 0, days_in_pos |-> 0])
    ELSE [pos |-> st.pos, days_in_pos |-> st.days_in_pos + 1]

\* one pass of the loop of _symbol_signals on score z and rebalance flag reb
SymbolStep(st, z, reb, c) ==
    IF st.pos = 0
    THEN IF reb /\ FGt(z, c.z_entry) THEN [pos |-> 1, days_in_pos |-> 1]
         ELSE IF reb /\ FLt(z, Neg(c.z_entry)) THEN [pos |-> -1, days_in_pos |-> 1]
         ELSE [pos |-> 0, days_in_pos |-> 0]
    ELSE IF reb /\ st.days_in_pos + 1 >= c.min_hold_days
            /\ \/ st.pos = 1 /\ FLt(z, c.z_exit)
               \/ st.pos = -1 /\ FGt(z, Neg(c.z_exit))
    THEN [pos |-> 0, days_in_pos |-> 0]
    ELSE [pos |-> st.pos, days_in_pos |-> st.days_in_pos + 1]

RECURSIVE SymbolState(_, _, _)
\* pos and days_in_pos after the pass on row i
SymbolState(g, i, c) ==
    IF i = 0 THEN [pos |-> 0, days_in_pos |-> 0]
    ELSE SymbolStep(SymbolState(g, i - 1, c), g[i].score_z, g[i].rebalance, c)

\* base_signal = out
BaseSignal(g, c) == [i \in 1 .. Len(g) |-> SymbolState(g, i, c).pos]

\* regime of a row from wig20_mom_60d
HybridRegime(row) ==
    IF FGt(row.wig20_mom_60d, Zero) THEN "BULL"
    ELSE IF FLt(row.wig20_mom_60d, Zero) THEN "BEAR"
    ELSE "NORMAL"

RECURSIVE SortF(_)
\* the numbers of a sequence in ascending order
SortF(x) ==
    IF x = <<>> THEN <<>>
    ELSE LET rest == SortF(SubSeq(x, 1, Len(x) - 1))
             last == x[Len(x)]
             k == Cardinality({i \in 1 .. Len(rest) : FLe(rest[i], last)})
         IN  SubSeq(rest, 1, k) \o <<last>> \o SubSeq(rest, k + 1, Len(rest))

\* Series.quantile(q) with linear interpolation on a sorted, non-empty series
Quantile(sorted, q) ==
    LET h == FMul(q, Int2F(Len(sorted) - 1))
        lo == Trunc(h)
    IN  IF lo + 1 >= Len(sorted) THEN sorted[Len(sorted)]
        ELSE FAdd(sorted[lo + 1],
                  FMul(FSub(h, Int2F(lo)), FSub(sorted[lo + 2], sorted[lo + 1])))

\* vol_q_bull, vol_q_norm and vol_q_bear: infinite when no volatility is finite
VolQuantiles(g, c) ==
    LET vol_series == SortF(DropNonFinite(Column(g, "wig20_vol_20d")))
    IN  IF vol_series = <<>> THEN [BULL |-> PInf, NORMAL |-> PInf, BEAR |-> PInf]
        ELSE [BULL |-> Quantile(vol_series, c.bull_vol_quantile),
              NORMAL |-> Quantile(vol_series, c.normal_vol_quantile),
              BEAR |-> Quantile(vol_series, c.bear_vol_quantile)]

\* signal of a row: base_signal after the volatility and the regime filters
FilteredSignal(row, base, vol_q, c) ==
    IF ~FLe(row.wig20_vol_20d, vol_q[HybridRegime(row)]) THEN 0
    ELSE IF c.bull_long_only /\ HybridRegime(row) = "BULL" /\ base < 0 THEN 0
    ELSE IF c.normal_long_only /\ HybridRegime(row) = "NORMAL" /\ base < 0 THEN 0
    ELSE IF c.bear_flat /\ HybridRegime(row) = "BEAR" THEN 0
    ELSE IF ~c.bear_flat /\ c.bear_short_only /\ HybridRegime(row) = "BEAR" /\ base > 0
    THEN 0
    ELSE base

HybridRows(g, base, vol_q, c) ==
    [i \in 1 .. Len(g) |->
        [score_z |-> g[i].score_z, rebalance |-> g[i].rebalance,
         regime |-> HybridRegime(g[i]),
         base_signal |-> base[i],
         prev_signal |-> IF i = 1 THEN 0 ELSE base[i - 1],
         signal |-> FilteredSignal(g[i], base[i], vol_q, c)]]

\* generate_signals of the hybrid strategy from the rebalance column on
HybridSignals(g, c) ==
    [status |-> "ok", machine |-> "hybrid",
     rows |-> HybridRows(g, BaseSignal(g, c), VolQuantiles(g, c), c)]

\* exit_thresh = exit_threshold if exit_threshold is not None else threshold * 0.5
ExitThresh(c) ==
    IF c.exit_threshold.some THEN c.exit_threshold.val ELSE FMul(c.threshold, <<1, 2>>)

\* one pass of the hysteresis loop of LSTMStrategy on prediction p
LstmStep(current_pos, p, c) ==
    IF current_pos = 0
    THEN IF FGt(p, c.threshold) THEN 1
         ELSE IF FLt(p, Neg(c.threshold)) THEN -1
         ELSE 0
    ELSE IF current_pos = 1 THEN (IF FLt(p, ExitThresh(c)) THEN 0 ELSE 1)
    ELSE IF FGt(p, Neg(ExitThresh(c))) THEN 0 ELSE -1

RECURSIVE LstmPos(_, _, _)
\* current_pos after the pass on the i-th prediction
LstmPos(preds_to_use, i, c) ==
    IF i = 0 THEN 0 ELSE LstmStep(LstmPos(preds_to_use, i - 1, c), preds_to_use[i], c)

\* the rows of the symbol whose features are complete: valid_indices
ValidIndices(g) == SelectSeq([i \in 1 .. Len(g) |-> i], LAMBDA i : g[i].valid)

\* df_out.loc[valid_indices, "signal"] = sigs; the other rows keep signal 0
LstmRows(g, c) ==
    [i \in 1 .. Len(g) |->
        [pred |-> g[i].pred, valid |-> g[i].valid,
         signal |-> IF g[i].valid
                    THEN LstmPos([k \in 1 .. Len(ValidIndices(g)) |->
                                     g[ValidIndices(g)[k]].pred],
                                 Cardinality({k \in 1 .. i : g[k].valid}), c)
                    ELSE 0]]

\* the hysteresis part of LSTMStrategy.generate_signals for one symbol
LstmSignals(g, c) == [status |-> "ok", machine |-> "lstm", rows |-> LstmRows(g, c)]

-----------------------------------------------------------------------------
(* Inputs of the hysteresis machines *)

HybridConfig(min_hold, bull_long_only, normal_long_only, bear) ==
    [z_entry |-> One, z_exit |-> <<3, 10>>, min_hold_days |-> min_hold,
     bull_long_only |-> bull_long_only, normal_long_only |-> normal_long_only,
     bear_flat |-> bear = "flat", bear_short_only |-> bear = "short_only",
     bull_vol_quantile |-> One, normal_vol_quantile |-> <<7, 10>>,
     bear_vol_quantile |-> <<7, 10>>]

Scores == {<<-2, 1>>, Zero, <<2, 1>>, NaN}

\* score patterns: every score and rebalance flag on every row, in a calm
\* NORMAL market, with no filter that bites
ScoreInputs ==
    {[given |-> TRUE, machine |-> "hybrid",
      cfg |-> HybridConfig(min_hold, FALSE, FALSE, "none"),
      rows |-> [i \in 1 .. NRows |->
                   [score_z |-> z[i], rebalance |-> reb[i],
                    wig20_mom_60d |-> Zero, wig20_vol_20d |-> One]]] :
        min_hold \in {1, 2, 3},
        z \in [1 .. NRows -> Scores], reb \in [1 .. NRows -> BOOLEAN]}

\* filter patterns: three rows rebalanced daily with min_hold_days = 1, every
\* regime and two volatility levels on every row, under every filter setting
FilterInputs ==
    {[given |-> TRUE, machine |-> "hybrid",
      cfg |-> HybridConfig(1, blo, nlo, bear),
      rows |-> [i \in 1 .. 3 |->
                   [score_z |-> z[i], rebalance |-> TRUE,
                    wig20_mom_60d |-> mom[i], wig20_vol_20d |-> vol[i]]]] :
        blo \in BOOLEAN, nlo \in BOOLEAN, bear \in {"flat", "short_only", "none"},
        z \in [1 .. 3 -> {<<-2, 1>>, <<2, 1>>}],
        mom \in [1 .. 3 -> {<<-1, 1>>, Zero, One}],
        vol \in [1 .. 3 -> {One, <<3, 1>>}]}

NoThreshold == [some |-> FALSE, val |-> Zero]

\* predictions of the network on every row, with rows of incomplete features
LstmInputs ==
    {[given |-> TRUE, machine |-> "lstm",
      cfg |-> [threshold |-> th, exit_threshold |-> ex],
      rows |-> [i \in 1 .. NRows |-> [pred |-> pr[i], valid |-> va[i]]]] :
        th \in {Zero, One},
        ex \in {NoThreshold, [some |-> TRUE, val |-> <<3, 2>>]},
        pr \in [1 .. NRows -> {<<-2, 1>>, Zero, <<2, 1>>}],
        va \in [1 .. NRows -> BOOLEAN]}

-----------------------------------------------------------------------------
(* A hysteresis machine as a state machine of the model: the rows of a symbol
   are given, and one run leaves its signals. *)

HysteresisInit ==
    /\ df \in EmptyPanels
    /\ cfg = MkCfg(0, 0, 1, 252)
    /\ call = NoCall
    /\ result = NoResult
    /\ benchmark = NoBenchmark
    /\ output = NoOutput
    /\ regime_input = NoRegimeInput
    /\ regime_output = NoOutput
    /\ strategy_input = NoStrategyInput
    /\ strategy_output = NoOutput
    /\ trader_input = NoTraderInput
    /\ trader_output = NoOutput
    /\ hysteresis_input \in ScoreInputs \cup FilterInputs \cup LstmInputs
    /\ hysteresis_output = NoOutput

\* _symbol_signals(g) and the filters of the hybrid strategy
symbol_signals ==
    /\ hysteresis_input.given
    /\ hysteresis_input.machine = "hybrid"
    /\ hysteresis_output = NoOutput
    /\ hysteresis_output' = HybridSignals(hysteresis_input.rows, hysteresis_input.cfg)
    /\ UNCHANGED <<df, cfg, call, result, benchmark, output, regime_input,
                   regime_output, strategy_vars, trader_vars, hysteresis_input>>

\* the hysteresis loop of LSTMStrategy
lstm_hysteresis ==
    /\ hysteresis_input.given
    /\ hysteresis_input.machine = "lstm"
    /\ hysteresis_output = NoOutput
    /\ hysteresis_output' = LstmSignals(hysteresis_input.rows, hysteresis_input.cfg)
    /\ UNCHANGED <<df, cfg, call, result, benchmark, output, regime_input,
                   regime_output, strategy_vars, trader_vars, hysteresis_input>>

HysteresisNext == symbol_signals \/ lstm_hysteresis

HysteresisSpec == HysteresisInit /\ [][HysteresisNext]_vars

-----------------------------------------------------------------------------
(* Properties *)

Done == call # NoCall

Returned == Done /\ result.status = "ok"

Raised == Done /\ result.status = "raise"

SingleMode == call.op = "run_single_symbol"

PortfolioMode == call.op = "run_portfolio"

\* the rows run_single_symbol works on for panel d
SinglePanel(d, symbol_arg) ==
    PrepareDf(d.columns, SelectSeq(d.rows, LAMBDA r : r.symbol = Lower(symbol_arg)))

\* the daily table the called mode derives from panel d
DailyOf(d) ==
    IF SingleMode
    THEN SingleRows(SinglePanel(d, call.symbol).rows, cfg)
    ELSE Grouped(PortfolioPanel(PrepareDf(d.columns, d.rows).rows, cfg))

\* panel d with the signal of its k-th row replaced by v
MutateSignal(d, k, v) == [d EXCEPT !.rows[k].signal = v]

\* another signal than sig: short -> flat -> long -> short
OtherSignal(sig) == IF sig = <<-1, 1>> THEN Zero ELSE IF sig = Zero THEN One ELSE <<-1, 1>>

\* the gross_ret of the rows of date t agrees between two daily tables
SameGrossRetOn(daily, daily2, t) ==
    /\ Len(daily2) = Len(daily)
    /\ \A i \in 1 .. Len(daily) :
           daily[i].date = t => daily2[i].gross_ret = daily[i].gross_ret

\* C1 (no look-ahead): after a run that returned, replacing the signal of any
\* one row of the panel, of date t and of any symbol, by another signal leaves
\* the gross_ret the daily table reports for date t unchanged; and in single-symbol mode the
\* gross_ret of a row is its ret_1d times the weight of the previous row of
\* the table (0 on the first row).
C1_NoLookAhead ==
    Returned =>
        /\ \A k \in 1 .. Len(df.rows) :
               SameGrossRetOn(result.daily,
                              DailyOf(MutateSignal(df, k, OtherSignal(df.rows[k].signal))),
                              df.rows[k].date)
        /\ SingleMode =>
               \A i \in 1 .. Len(result.daily) :
                   result.daily[i].gross_ret =
                       FMul(result.daily[i].ret_1d,
                            IF i = 1 THEN Zero ELSE result.daily[i - 1].weight)

\* a long signal on a later row with a non-zero return and no exposure yet:
\* the row earns nothing
C1_Witness ==
    /\ Returned
    /\ SingleMode
    /\ \E i \in 2 .. Len(result.daily) :
           /\ result.daily[i].weight = One
           /\ result.daily[i].weight_lag1 = Zero
           /\ result.daily[i].ret_1d = <<1, 2>>
           /\ result.daily[i].gross_ret = Zero

-----------------------------------------------------------------------------
\* C2 (portfolio leverage cap): on every date of the daily table of a
\* portfolio run, gross_leverage does not exceed max_gross_leverage.
C2_LeverageCap ==
    (Returned /\ PortfolioMode) =>
        \A i \in 1 .. Len(result.daily) :
            FLe(result.daily[i].gross_leverage, cfg.max_gross_leverage)

-----------------------------------------------------------------------------
\* the configurations that differ from c only in a larger commission or a
\* larger slippage
CostlierCfgs(c) ==
    {[c EXCEPT !.commission_bps = FAdd(@, Int2F(2500))],
     [c EXCEPT !.slippage_bps = FAdd(@, Int2F(2500))]}

\* the call of the current state made under configuration c
Rerun(c) ==
    IF SingleMode THEN RunSingleSymbol(df, call.symbol, c) ELSE RunPortfolio(df, c)

\* C3 (cost monotonicity): a run of the same call on the same panel under a
\* larger commission_bps or slippage_bps never reports a greater total_return.
C3_CostMonotone ==
    Returned =>
        \A c2 \in CostlierCfgs(cfg) :
            LET r2 == Rerun(c2)
            IN  r2.status = "ok" =>
                    ~FGt(r2.summary.total_return, result.summary.total_return)

-----------------------------------------------------------------------------
\* the equity values the drawdown is computed from
CleanEquity == DropNonFinite([i \in 1 .. Len(result.equity_curve) |->
                                 result.equity_curve[i].equity])

NonDecreasing(s) == \A i \in 1 .. (Len(s) - 1) : FLe(s[i], s[i + 1])

\* C4 (drawdown bound): every returned summary has max_drawdown <= 0, and
\* max_drawdown = 0 when the equity curve never decreases.
C4_DrawdownBound ==
    Returned =>
        /\ FLe(result.summary.max_drawdown, Zero)
        /\ NonDecreasing(CleanEquity) => result.summary.max_drawdown = Zero

-----------------------------------------------------------------------------
\* the rows of the panel whose symbol is the requested one, ignoring case
MatchingRows == {k \in 1 .. Len(df.rows) : Lower(df.rows[k].symbol) = Lower(call.symbol)}

NoDataError == Raised /\ result.msg = "no data for symbol"

\* C5 (case-insensitive selection): run_single_symbol on a panel with all
\* required columns works on exactly the rows whose symbol equals the request
\* ignoring case: it raises "no data for symbol" only when there is no such
\* row, and a returned daily table has one row per such row.
C5_CaseInsensitive ==
    (Done /\ SingleMode /\ Required \subseteq df.columns) =>
        /\ NoDataError <=> MatchingRows = {}
        /\ Returned => Len(result.daily) = Cardinality(MatchingRows)

-----------------------------------------------------------------------------
MissingColumns == Required \ df.columns

\* C6 (missing required columns): a call on a panel that lacks required
\* columns raises the "missing required columns" ValueError, whose message
\* lists every missing column.
C6_MissingColumns ==
    (Done /\ MissingColumns # {}) =>
        /\ Raised
        /\ result.type = "ValueError"
        /\ result.msg = "missing required columns"
        /\ MissingColumns \subseteq result.detail

-----------------------------------------------------------------------------
\* the rows the called mode works on: the rows whose symbol the request
\* selects, or every row in portfolio mode
SelectedRows ==
    IF SingleMode
    THEN {k \in 1 .. Len(df.rows) : df.rows[k].symbol = Lower(call.symbol)}
    ELSE 1 .. Len(df.rows)

\* the net_ret column of the daily table of the call
NetRets == LET daily == DailyOf(df) IN [i \in 1 .. Len(daily) |-> daily[i].net_ret]

HasFiniteNetRet ==
    /\ Required \subseteq df.columns
    /\ SelectedRows # {}
    /\ DropNonFinite(NetRets) # <<>>

\* C7 (degeneracy is data): a call on a panel with the required columns, a
\* row to work on and a finite net return returns a result, in which sharpe
\* is not-a-number exactly when ann_vol is not greater than 0.
C7_DegeneracyIsData ==
    (Done /\ HasFiniteNetRet) =>
        /\ Returned
        /\ result.summary.sharpe = "nan" <=> ~FGt(result.summary.ann_vol_sq, Zero)

-----------------------------------------------------------------------------
\* the product of (1 + net_ret) over the valid net returns of the daily table
ValidGrowth ==
    LET valid == DropNonFinite([i \in 1 .. Len(result.daily) |-> result.daily[i].net_ret])
    IN  Prod([i \in 1 .. Len(valid) |-> FAdd(One, valid[i])])

\* C8 (growth consistency): a returned summary has total_return =
\* final_equity / initial_capital - 1, n_days valid net returns, and
\* final_equity / initial_capital equal to the product of (1 + net_ret) over
\* them.
C8_GrowthConsistency ==
    Returned =>
        LET growth == FDiv(result.summary.final_equity, cfg.initial_capital)
        IN  /\ result.summary.total_return = FSub(growth, One)
            /\ result.summary.n_days =
                   Len(DropNonFinite([i \in 1 .. Len(result.daily) |->
                                         result.daily[i].net_ret]))
            /\ growth = ValidGrowth

-----------------------------------------------------------------------------
\* the per-(symbol, date) table of the portfolio run on the panel
SymbolTable == PortfolioPanel(PrepareDf(df.columns, df.rows).rows, cfg)

\* the rows of table t on the date of its row i
SameDate(t, i) == {j \in 1 .. Len(t) : t[j].date = t[i].date}

\* the weight split on the date of row i of the per-symbol table t
SplitHolds(t, i, max) ==
    LET n_long == Cardinality({j \in SameDate(t, i) : FGt(t[j].weight, Zero)})
        n_short == Cardinality({j \in SameDate(t, i) : FLt(t[j].weight, Zero)})
        L == IF n_long > 0 /\ n_short > 0 THEN FDiv(max, <<2, 1>>) ELSE max
        total == SumUpTo([j \in 1 .. Len(t) |->
                             IF j \in SameDate(t, i)
                             THEN FAbs(t[j].port_weight) ELSE Zero], Len(t))
    IN  /\ FGt(t[i].weight, Zero) => t[i].port_weight = FDiv(L, Int2F(n_long))
        /\ FLt(t[i].weight, Zero) => t[i].port_weight = Neg(FDiv(L, Int2F(n_short)))
        /\ t[i].weight = Zero => t[i].port_weight = Zero
        /\ total = IF n_long + n_short = 0 THEN Zero ELSE max

-----------------------------------------------------------------------------
\* (commission_bps + slippage_bps) / 10000 of the configuration
CostRate == FDiv(FAdd(cfg.commission_bps, cfg.slippage_bps), <<10000, 1>>)

\* the port_weight of the latest earlier row of the symbol of row i (0 if none)
PrevPortWeight(t, i) ==
    LET earlier == {j \in 1 .. Len(t) : t[j].symbol = t[i].symbol /\ t[j].date < t[i].date}
    IN  IF earlier = {} THEN Zero
        ELSE t[CHOOSE j \in earlier : \A h \in earlier : t[h].date <= t[j].date].port_weight

\* the cost formula on the per-symbol table t and the daily table of a
\* portfolio run (the cost of a date is the sum of its rows' costs, a missing
\* one counting for nothing); idle is the cost of a row whose weight did not
\* change
PortfolioCostHolds(t, daily, rate, idle) ==
    /\ \A i \in 1 .. Len(t) :
           LET prev == PrevPortWeight(t, i)
           IN  /\ t[i].symbol_cost_ret = FMul(FAbs(FSub(t[i].port_weight, prev)), rate)
               /\ t[i].port_weight = prev => t[i].symbol_cost_ret = idle
    /\ \A k \in 1 .. Len(daily) :
           LET costs == SelectSeq(t, LAMBDA r : r.date = daily[k].date)
           IN  /\ daily[k].cost_ret =
                      SumUpTo([j \in 1 .. Len(costs) |->
                                  IF IsNaN(costs[j].symbol_cost_ret) THEN Zero
                                  ELSE costs[j].symbol_cost_ret],
                              Len(costs))
               /\ daily[k].net_ret = FSub(daily[k].gross_ret, daily[k].cost_ret)

\* the cost formula on the daily table of a single-symbol run
SingleCostHolds(daily, rate, idle) ==
    \A i \in 1 .. Len(daily) :
        LET row == daily[i]
            prev == IF i = 1 THEN Zero ELSE daily[i - 1].weight
        IN  /\ row.cost_ret = FMul(FAbs(FSub(row.weight, prev)), rate)
            /\ row.weight = prev => row.cost_ret = idle
            /\ row.net_ret = FSub(row.gross_ret, row.cost_ret)

\* C10 as stated (cost on change only): on every row cost_ret is |weight -
\* previous weight of the symbol| * (commission_bps + slippage_bps) / 10000, the
\* previous weight of a symbol's first row being 0 (with port_weight, summed
\* over the symbols of the date, in portfolio mode); so a row whose weight
\* equals the previous one costs nothing; and net_ret = gross_ret - cost_ret.
C10_CostOnChange ==
    /\ (Returned /\ SingleMode) => SingleCostHolds(result.daily, CostRate, Zero)
    /\ (Returned /\ PortfolioMode) =>
           PortfolioCostHolds(SymbolTable, result.daily, CostRate, Zero)

\* 0 * rate: zero for a finite rate, not-a-number for an infinite one
CostIfUnchanged == FMul(Zero, CostRate)

\* C10, amended (cost on change only): on every row cost_ret is |weight -
\* previous weight of the symbol| * (commission_bps + slippage_bps) / 10000
\* and net_ret = gross_ret - cost_ret, as stated; a row whose weight equals the
\* previous one costs nothing when the cost rate is finite, and has a
\* not-a-number cost when the rate is infinite.
C10_CostOnChangeFiniteRate ==
    /\ CostIfUnchanged = (IF IsFinite(CostRate) THEN Zero ELSE NaN)
    /\ (Returned /\ SingleMode) =>
           SingleCostHolds(result.daily, CostRate, CostIfUnchanged)
    /\ (Returned /\ PortfolioMode) =>
           PortfolioCostHolds(SymbolTable, result.daily, CostRate, CostIfUnchanged)

\* a position opened on the first row and charged there, then held on the
\* next row at no cost
C10_Witness ==
    /\ Returned
    /\ SingleMode
    /\ Len(result.daily) >= 2
    /\ result.daily[1].weight # Zero
    /\ FGt(result.daily[1].cost_ret, Zero)
    /\ result.daily[2].weight = result.daily[1].weight
    /\ result.daily[2].cost_ret = Zero

-----------------------------------------------------------------------------
(* C11, C12: the toy panels of test_engine.py *)

ZeroCost == cfg.commission_bps = Zero /\ cfg.slippage_bps = Zero

\* the panel has one symbol, the requested one, the same signal sig and the same
\* close-to-close return (a finite number >= -1) on every row
ToyPanel(sig) ==
    /\ SingleMode
    /\ df.columns = Required
    /\ df.rows # <<>>
    /\ \A k \in 1 .. Len(df.rows) :
           /\ df.rows[k].symbol = Lower(call.symbol)
           /\ df.rows[k].signal = sig
           /\ df.rows[k].ret_1d = df.rows[1].ret_1d
           /\ IsFinite(df.rows[k].ret_1d)
           /\ FLe(Neg(One), df.rows[k].ret_1d)

RECURSIVE Pow(_, _)
Pow(x, k) == IF k = 0 THEN One ELSE FMul(Pow(x, k - 1), x)

\* C11: always long under a constant finite return r with zero costs: the run
\* returns, and the equity of the k-th row is initial_capital * (1 + r)^(k-1).
C11_AlwaysLong ==
    (ToyPanel(One) /\ ZeroCost) =>
        /\ Returned
        /\ Len(result.equity_curve) = Len(df.rows)
        /\ \A k \in 1 .. Len(df.rows) :
               result.equity_curve[k].equity =
                   FMul(cfg.initial_capital, Pow(FAdd(One, df.rows[1].ret_1d), k - 1))

\* an always-long run of NDates rows with a non-zero return has returned
C11_Witness ==
    /\ ToyPanel(One) /\ ZeroCost /\ Returned
    /\ Len(df.rows) = NDates
    /\ df.rows[1].ret_1d = <<1, 2>>
    /\ result.equity_curve[NDates].equity # cfg.initial_capital

\* C12: a flat strategy (signal 0, ret_1d 0, zero costs) on n rows returns an
\* equity curve of exactly n rows, each with equity = initial_capital.
C12_FlatKeepsCapital ==
    (ToyPanel(Zero) /\ ZeroCost /\ df.rows[1].ret_1d = Zero) =>
        /\ Returned
        /\ Len(result.equity_curve) = Len(df.rows)
        /\ \A k \in 1 .. Len(df.rows) :
               result.equity_curve[k].equity = cfg.initial_capital

\* a flat run of NDates rows has returned
C12_Witness ==
    /\ ToyPanel(Zero) /\ ZeroCost /\ df.rows[1].ret_1d = Zero
    /\ Returned
    /\ Len(df.rows) = NDates
    /\ Len(result.equity_curve) = NDates

-----------------------------------------------------------------------------
(* C13, C14: the fatal errors of the engine *)

\* a raised exception carries none of the parts of a BacktestResult
NoBacktestResult ==
    /\ Raised
    /\ {"equity_curve", "daily", "summary"} \cap DOMAIN result = {}

\* C13: on a panel with the required columns, run_single_symbol raises "no data
\* for symbol", naming the (lower-cased) request, when no row is of the
\* requested symbol; run_portfolio raises its no-data error on a panel without
\* rows.  No result is returned in either case.
C13_NoData ==
    /\ (Done /\ SingleMode /\ Required \subseteq df.columns /\ MatchingRows = {}) =>
           /\ NoBacktestResult
           /\ result.type = "ValueError"
           /\ result.msg = "no data for symbol"
           /\ result.detail = {Lower(call.symbol)}
    /\ (Done /\ PortfolioMode /\ Required \subseteq df.columns /\ df.rows = <<>>) =>
           /\ NoBacktestResult
           /\ result.type = "ValueError"
           /\ result.msg = "no data provided for portfolio backtest"

\* run_single_symbol was asked for a symbol that a non-empty panel does not hold
C13_Witness ==
    /\ Done /\ SingleMode /\ Required \subseteq df.columns
    /\ df.rows # <<>>
    /\ MatchingRows = {}
    /\ NoDataError

\* the number of finite entries of a sequence of numbers
CountFinite(s) == Cardinality({i \in 1 .. Len(s) : IsFinite(s[i])})

\* the number of finite net returns of the run
FiniteNetRets == CountFinite(NetRets)

NoValidReturnsHolds(n_finite) ==
    /\ n_finite = 0 =>
           /\ NoBacktestResult
           /\ result.type = "ValueError"
           /\ result.msg = "no valid returns to compute metrics"
    /\ Returned => result.summary.n_days = n_finite

\* C14: a run with rows to work on whose net returns are all missing or
\* non-finite raises "no valid returns" and returns no result; a returned
\* summary has n_days = the number of finite net returns.
C14_NoValidReturns ==
    (Done /\ Required \subseteq df.columns /\ SelectedRows # {}) =>
        NoValidReturnsHolds(FiniteNetRets)

\* a single-symbol run of NDates rows with infinite net returns was refused
C14_Witness ==
    /\ Done /\ SingleMode /\ Required \subseteq df.columns
    /\ Cardinality(SelectedRows) = NDates
    /\ FiniteNetRets = 0
    /\ \E i \in 1 .. Len(NetRets) : IsInf(NetRets[i])
    /\ Raised /\ result.msg = "no valid returns to compute metrics"

-----------------------------------------------------------------------------
(* C15, C16: the benchmark comparator *)

\* the comparator step has acted
Compared == output # NoOutput

DailyDates == {result.daily[i].date : i \in 1 .. Len(result.daily)}

BenchmarkDates == {benchmark.rows[j].date : j \in 1 .. Len(benchmark.rows)}

NoOverlapError ==
    /\ output.status = "raise"
    /\ output.type = "SystemExit"
    /\ output.msg = "No overlapping dates between backtest and benchmark."

\* C15: when the dates of the daily table and the dates of a benchmark with
\* the date and close columns are disjoint, the comparator step raises "no
\* overlapping dates" and emits no summary and no table.
C15_NoOverlap ==
    (Compared /\ {"date", "close"} \subseteq benchmark.columns
              /\ DailyDates \cap BenchmarkDates = {}) =>
        /\ NoOverlapError
        /\ {"summary", "daily", "equity_curve"} \cap DOMAIN output = {}

\* the comparator has refused a benchmark whose dates all lie outside the run
C15_Witness ==
    /\ Compared
    /\ benchmark.rows # <<>>
    /\ DailyDates \cap BenchmarkDates = {}
    /\ NoOverlapError

\* row i of the enriched table is row i of the engine's table with bm_ret and
\* active_ret present exactly on the benchmark dates
EnrichedRow(before, after, dates) ==
    /\ after.date = before.date
    /\ after.net_ret = before.net_ret
    /\ IsNaN(after.bm_ret) <=> before.date \notin dates
    /\ IsNaN(after.active_ret) <=> before.date \notin dates
    /\ before.date \in dates => after.active_ret = FSub(after.net_ret, after.bm_ret)

\* C16: the daily table the comparator emits has the rows of the engine's daily
\* table, one for one and in the same order; bm_ret and active_ret are present
\* exactly on the dates of the benchmark, where active_ret = net_ret - bm_ret.
C16_DailyRange ==
    (Compared /\ output.status = "written") =>
        /\ Len(output.daily) = Len(result.daily)
        /\ \A i \in 1 .. Len(result.daily) :
               EnrichedRow(result.daily[i], output.daily[i], BenchmarkDates)

-----------------------------------------------------------------------------
(* C17 .. C20: the regime analysis *)

RegimeWritten == regime_output.status = "written"

Labels == {"BULL", "BEAR", "NORMAL"}

\* the rows of the merged table m with label reg
RegimeDays(m, reg) == {i \in 1 .. Len(m) : m[i].regime = reg}

\* the labels that have rows in metrics_long
ReportedRegimes(rows) == {rows[k].regime : k \in 1 .. Len(rows)}

\* the n_days reported for a regime
ReportedDays(rows, reg) ==
    (CHOOSE k \in 1 .. Len(rows) : rows[k].regime = reg /\ rows[k].series = "strategy_net")
        
RECURSIVE SumDays(_, _)
SumDays(rows, regs) ==
    IF regs = {} THEN 0
    ELSE LET reg == CHOOSE x \in regs : TRUE
         IN  rows[ReportedDays(rows, reg)].n_days + SumDays(rows, regs \ {reg})

PartitionHolds(m, rows) ==
    /\ \A i \in 1 .. Len(m) :
           /\ m[i].regime \in Labels
           /\ m[i].regime = "BULL" <=>
                  (FGt(m[i].close, m[i].ma) /\ FGt(m[i].ma_slope, Zero))
           /\ m[i].regime = "BEAR" <=>
                  (FLt(m[i].close, m[i].ma) /\ FLt(m[i].ma_slope, Zero))
    /\ \A a, b \in Labels : a # b => RegimeDays(m, a) \cap RegimeDays(m, b) = {}
    /\ UNION {RegimeDays(m, a) : a \in Labels} = 1 .. Len(m)
    /\ ReportedRegimes(rows) = {a \in Labels : RegimeDays(m, a) # {}}
    /\ \A k \in 1 .. Len(rows) :
           rows[k].n_days = Cardinality(RegimeDays(m, rows[k].regime))
    /\ SumDays(rows, ReportedRegimes(rows)) = Len(m)

\* C17: every row of the merged table has exactly one label of BULL, BEAR and
\* NORMAL (BULL and BEAR by their conditions); the three subsets are disjoint
\* and cover the table, and the n_days of the reported regimes sum to its length.
C17_RegimePartition ==
    RegimeWritten => PartitionHolds(regime_output.m, regime_output.metrics_long)

\* a written analysis in which all three regimes occur
C17_Witness ==
    /\ RegimeWritten
    /\ ReportedRegimes(regime_output.metrics_long) = Labels

\* the days of regime reg with a finite value in column col / also INVESTED
FiniteDays(m, reg, col) == {i \in RegimeDays(m, reg) : IsFinite(m[i][col])}

InvestedDays(m, reg, col, threshold) ==
    {i \in FiniteDays(m, reg, col) :
        ~IsNaN(m[i].gross_leverage) /\ FGt(m[i].gross_leverage, threshold)}

RateInRange(x) == IsNaN(x) \/ (FLe(Zero, x) /\ FLe(x, One))

HitRatesHold(m, rows, threshold) ==
    \A k \in 1 .. Len(rows) :
        /\ RateInRange(rows[k].hit_rate)
        /\ RateInRange(rows[k].hit_rate_invested)
        /\ IsNaN(rows[k].hit_rate) <=>
               FiniteDays(m, rows[k].regime, SeriesCol(rows[k].series)) = {}
        /\ IsNaN(rows[k].hit_rate_invested) <=>
               InvestedDays(m, rows[k].regime, SeriesCol(rows[k].series), threshold) = {}

\* C18: hit_rate and hit_rate_invested of every row lie in [0, 1] or are
\* not-a-number; hit_rate is not-a-number exactly when the regime has no finite
\* return of the series, hit_rate_invested exactly when no day of the regime
\* with gross_leverage > invested_threshold has one.
C18_HitRateBounds ==
    RegimeWritten =>
        HitRatesHold(regime_output.m, regime_output.metrics_long,
                     regime_input.args.invested_threshold)

\* a row whose regime has finite returns but no INVESTED day, and a row with both
C18_Witness ==
    /\ RegimeWritten
    /\ \E k \in 1 .. Len(regime_output.metrics_long) :
           /\ ~IsNaN(regime_output.metrics_long[k].hit_rate)
           /\ IsNaN(regime_output.metrics_long[k].hit_rate_invested)
    /\ \E k \in 1 .. Len(regime_output.metrics_long) :
           /\ ~IsNaN(regime_output.metrics_long[k].hit_rate_invested)
           /\ FLt(Zero, regime_output.metrics_long[k].hit_rate_invested)
           /\ FLt(regime_output.metrics_long[k].hit_rate_invested, One)

\* the days of the regime on which both the net return and the benchmark
\* return are finite / at least one of them is
JointDays(m, reg) ==
    {i \in RegimeDays(m, reg) : IsFinite(m[i].net_ret) /\ IsFinite(m[i].bm_ret_used)}

EitherDays(m, reg) ==
    {i \in RegimeDays(m, reg) : IsFinite(m[i].net_ret) \/ IsFinite(m[i].bm_ret_used)}

InsufficientSampleHolds(m, rows) ==
    \A k \in 1 .. Len(rows) :
        (rows[k].series = "strategy_net"
            /\ Cardinality(JointDays(m, rows[k].regime)) < MinObs) =>
            /\ rows[k].beta = "nan"
            /\ rows[k].alpha_ann = "nan"
            /\ rows[k].corr_with_benchmark = "nan"

\* C19: in every regime with fewer than 30 days on which both the net return
\* and the benchmark return are finite, the strategy_net row has beta,
\* alpha_ann and corr_with_benchmark not-a-number, however many days have one
\* of the two finite.
C19_InsufficientSample ==
    RegimeWritten => InsufficientSampleHolds(regime_output.m, regime_output.metrics_long)

\* the return of the series over the whole merged range, zero outside the regime
MaskedReturns(m, reg, col) ==
    [i \in 1 .. Len(m) |-> IF m[i].regime = reg THEN Fillna0(m[i][col]) ELSE Zero]

\* the maximum drawdown of the cumulated product of 1 + MaskedReturns
WholeRangeMaxDd(masked) ==
    MaxDrawdown(DropNonFinite(CumProd([i \in 1 .. Len(masked) |-> FAdd(One, masked[i])])))

MaskedDrawdownHolds(m, rows) ==
    \A k \in 1 .. Len(rows) :
        rows[k].max_drawdown_masked =
            WholeRangeMaxDd(MaskedReturns(m, rows[k].regime, SeriesCol(rows[k].series)))

\* C20: max_drawdown_masked of every row is the maximum drawdown of the equity
\* curve of the series over the whole merged range with the return set to zero
\* outside the regime, cumulated from the first merged day.
C20_MaskedDrawdown ==
    RegimeWritten => MaskedDrawdownHolds(regime_output.m, regime_output.metrics_long)

-----------------------------------------------------------------------------
(* C21: the labelling rule *)

\* the row of the benchmark bm that is its k-th bar in date order
Bar(bm, k) ==
    bm[CHOOSE j \in 1 .. Len(bm) :
           Cardinality({x \in 1 .. Len(bm) : bm[x].date <= bm[j].date}) = k]

\* the mean of the closes of the w bars that end with bar k; undefined before
\* bar w
BarAverage(bm, k, w) ==
    IF k < w THEN NaN
    ELSE FDiv(SumUpTo([x \in 1 .. w |-> Bar(bm, k - w + x).close], w), Int2F(w))

\* the change of the average over sw bars; undefined while either end is
BarSlope(bm, k, w, sw) ==
    IF k - sw < w THEN NaN
    ELSE FSub(BarAverage(bm, k, w), BarAverage(bm, k - sw, w))

\* the label the rule gives to a close, an average and a slope
RuleLabel(close, ma, slope) ==
    IF IsNaN(ma) \/ IsNaN(slope) THEN "NORMAL"
    ELSE IF FGt(close, ma) /\ FGt(slope, Zero) THEN "BULL"
    ELSE IF FLt(close, ma) /\ FLt(slope, Zero) THEN "BEAR"
    ELSE "NORMAL"

\* every row of m carries the label of its date's bar in the benchmark bm
LabelRuleHolds(m, bm, args) ==
    \A i \in 1 .. Len(m) :
        \E k \in 1 .. Len(bm) :
            /\ Bar(bm, k).date = m[i].date
            /\ m[i].regime =
                   RuleLabel(Bar(bm, k).close,
                             BarAverage(bm, k, args.ma_window),
                             BarSlope(bm, k, args.ma_window, args.slope_window))

\* C21 (labelling rule): a merged day is BULL iff the benchmark close is above
\* the moving average and the slope is positive, BEAR iff the close is below
\* the average and the slope is negative, and NORMAL otherwise, equality and
\* the warm-up bars (average or slope undefined) included; the average and the
\* slope are taken over the benchmark's own bars, not over the merged days.
C21_LabelRule ==
    RegimeWritten => LabelRuleHolds(regime_output.m, regime_input.bm, regime_input.args)

\* a run whose daily dates miss a benchmark bar and that has a warm-up day
\* (NORMAL), a BULL day and a BEAR day
C21_Witness ==
    /\ RegimeWritten
    /\ Len(regime_output.m) < Len(regime_input.bm)
    /\ \E i \in 1 .. Len(regime_output.m) :
           IsNaN(regime_output.m[i].ma) /\ regime_output.m[i].regime = "NORMAL"
    /\ \E i \in 1 .. Len(regime_output.m) : regime_output.m[i].regime = "BULL"
    /\ \E i \in 1 .. Len(regime_output.m) : regime_output.m[i].regime = "BEAR"

-----------------------------------------------------------------------------
(* C22: the input panel *)

\* C22 (input panel is not modified): a call of run_single_symbol or
\* run_portfolio leaves the caller's panel as it was (rows, row order, columns
\* and values), whether it returns or raises; no later step changes it either.
C22_InputUnchanged == [][df' = df]_vars

\* run_portfolio has returned on a panel given with upper-case symbols, which
\* the engine lower-cases on its own frame
C22_Witness ==
    /\ Returned
    /\ PortfolioMode
    /\ \E i \in 1 .. Len(df.rows) : df.rows[i].symbol # Lower(df.rows[i].symbol)

-----------------------------------------------------------------------------
(* C23, C24, C30: the signal strategies *)

SignalsWritten == strategy_output.status = "ok"

\* C23 (long-only strategies never short): a strategy built with long_only =
\* True emits no signal -1 on any row, whatever the prices and the other
\* parameters are.
C23_LongOnlyNeverShort ==
    (SignalsWritten /\ strategy_input.params.long_only) =>
        \A i \in 1 .. Len(strategy_output.rows) : strategy_output.rows[i].signal # -1

\* a long-only momentum run with a row whose momentum is below entry_short,
\* left flat
C23_Witness ==
    /\ SignalsWritten
    /\ strategy_input.strategy = "MomentumStrategy"
    /\ strategy_input.params.long_only
    /\ \E i \in 1 .. Len(strategy_output.rows) :
           /\ FLt(strategy_output.rows[i].momentum, strategy_input.params.entry_short)
           /\ strategy_output.rows[i].signal = 0

\* every row of rows with a defined rsi below lower_bound carries signal 1
OversoldIsLong(rows, lower_bound) ==
    \A i \in 1 .. Len(rows) :
        (~IsNaN(rows[i].rsi) /\ FLt(rows[i].rsi, lower_bound)) => rows[i].signal = 1

\* C24 (RSI oversold means long): in the signals of RSIStrategy every row
\* whose rsi is defined and below lower_bound carries signal 1, the earliest
\* row on which rsi is defined included.
C24_OversoldIsLong ==
    (SignalsWritten /\ strategy_input.strategy = "RSIStrategy") =>
        OversoldIsLong(strategy_output.rows, strategy_input.params.lower_bound)

\* the rows of symbol sym in frame d, in date order
OwnRows(d, sym) ==
    SortRows(SelectSeq(d.rows, LAMBDA r : r.symbol = sym), "date")

\* the signals of symbol sym in a signals frame, by date
SignalsOf(rows, sym) ==
    {<<rows[i].date, rows[i].signal>> : i \in {k \in 1 .. Len(rows) : rows[k].symbol = sym}}

\* the run on frame d gave symbol sym the signals a run on any frame d2 that
\* holds the same rows of sym gives it
IsolationHolds(strategy, p, d, out_rows, sym) ==
    \A d2 \in PanelFrames :
        OwnRows(d2, sym) = OwnRows(d, sym) =>
            SignalsOf(GenerateSignals(strategy, d2, p).rows, sym) = SignalsOf(out_rows, sym)

\* C30 (per-symbol isolation of signals): on a panel of several symbols the
\* signals a strategy emits for a symbol depend on that symbol's own rows in
\* date order only; other closes or row positions of another symbol leave
\* them unchanged.
C30_SymbolIsolation ==
    (SignalsWritten /\ strategy_input.df \in PanelFrames) =>
        \A sym \in {"aaa", "bbb"} :
            IsolationHolds(strategy_input.strategy, strategy_input.params,
                           strategy_input.df, strategy_output.rows, sym)

-----------------------------------------------------------------------------
(* C25, C26: the daily trader *)

TraderRan == trader_output # NoOutput

\* the planned orders on instrument uic
OrdersOn(orders, uic) == {k \in 1 .. Len(orders) : orders[k].uic = uic}

\* the instruments whose answer carries signal sig
WithSignal(results, sig) ==
    {results[i].uic : i \in {k \in 1 .. Len(results) :
                                 ~results[k].error /\ results[k].signal = sig}}

\* C25 (long-only live trading ignores short signals): run with --long-only,
\* an instrument whose current signal is -1 gets no planned order at all,
\* whatever its previous signal was, and only instruments whose current signal
\* is 1 get entry orders.
C25_LongOnlyIgnoresShort ==
    (TraderRan /\ trader_input.args.long_only) =>
        /\ \A uic \in WithSignal(trader_input.results, -1) :
               OrdersOn(trader_output.final_orders, uic) = {}
        /\ \A k \in 1 .. Len(trader_output.final_orders) :
               trader_output.final_orders[k].reason.kind = "Entry" =>
                   trader_output.final_orders[k].uic \in WithSignal(trader_input.results, 1)

\* the value of the planned entry orders: the sum of amount * price / fx_rate
EntrySpend(orders, fx_rate) ==
    SumUpTo([k \in 1 .. Len(orders) |->
                IF orders[k].reason.kind = "Entry"
                THEN FDiv(FMul(Int2F(orders[k].amount), orders[k].price), fx_rate)
                ELSE Zero],
            Len(orders))

\* C26 (daily spend cap): the value of the planned entry orders of one run
\* never exceeds max_daily_spend, in auto-allocate mode and in fixed-amount
\* mode alike.
C26_DailySpendCap ==
    TraderRan =>
        FLe(EntrySpend(trader_output.final_orders, trader_input.args.fx_rate),
            trader_input.args.max_daily_spend)

-----------------------------------------------------------------------------
(* C27, C28: the hysteresis machines *)

HybridRan == hysteresis_output.status = "ok" /\ hysteresis_output.machine = "hybrid"

LstmRan == hysteresis_output.status = "ok" /\ hysteresis_output.machine = "lstm"

\* the rows on which a position is opened
EntryRows(rows) ==
    {i \in 1 .. Len(rows) :
        rows[i].base_signal # 0 /\ (i = 1 \/ rows[i - 1].base_signal = 0)}

\* a position opened on row i keeps its value on hold rows, the entry row
\* counted, as far as the rows go
HeldFor(rows, i, hold) ==
    \A k \in 0 .. hold - 1 :
        i + k <= Len(rows) => rows[i + k].base_signal = rows[i].base_signal

\* C27 (minimum hold): once a position is opened on a row, base_signal keeps
\* that non-zero value for at least min_hold_days consecutive rows, the entry
\* row counted, before it can return to 0.
C27_MinimumHold ==
    HybridRan =>
        \A i \in EntryRows(hysteresis_output.rows) :
            HeldFor(hysteresis_output.rows, i, hysteresis_input.cfg.min_hold_days)

\* the values of column col on two consecutive rows are never 1 then -1 or -1
\* then 1
NoReversal(rows, col) ==
    \A i \in 2 .. Len(rows) : rows[i - 1][col] * rows[i][col] # -1

-----------------------------------------------------------------------------
(* C29: portfolio mode against single-symbol mode on a one-symbol panel *)

\* a panel with the required columns that holds exactly one symbol, with
\* every signal in {-1, 0, 1}, under max_gross_leverage = 1
OneSymbolCase ==
    /\ Done
    /\ Required \subseteq df.columns
    /\ Cardinality({df.rows[i].symbol : i \in 1 .. Len(df.rows)}) = 1
    /\ \A i \in 1 .. Len(df.rows) : df.rows[i].signal \in {<<-1, 1>>, Zero, One}
    /\ cfg.max_gross_leverage = One

\* the columns and metrics two results are compared on
ComparedColumns(r) ==
    [status |-> r.status,
     rows |-> IF r.status # "ok" THEN <<>>
              ELSE [i \in 1 .. Len(r.daily) |->
                       [date |-> r.daily[i].date,
                        gross_ret |-> r.daily[i].gross_ret,
                        cost_ret |-> r.daily[i].cost_ret,
                        net_ret |-> r.daily[i].net_ret,
                        equity |-> r.equity_curve[i].equity,
                        cum_ret |-> r.equity_curve[i].cum_ret]],
     metrics |-> IF r.status # "ok" THEN <<>>
                 ELSE <<r.summary.n_days, r.summary.total_return,
                        r.summary.max_drawdown>>]

\* C29 (portfolio refines single): on a panel holding exactly one symbol, with
\* max_gross_leverage = 1 and every signal in {-1, 0, 1}, run_portfolio
\* yields row by row the same gross_ret, cost_ret, net_ret, equity and cum_ret
\* as run_single_symbol for that symbol, and the same n_days, total_return
\* and max_drawdown.
C29_PortfolioRefinesSingle ==
    OneSymbolCase =>
        ComparedColumns(RunPortfolio(df, cfg))
            = ComparedColumns(RunSingleSymbol(df, df.rows[1].symbol, cfg))

=============================================================================
